---- MODULE Spec2Model ----
(***************************************************************************)
(* Model of packages/workflow/src/NodeHelpers.ts: the display-condition    *)
(* evaluator, the parameter dependency resolver, the node parameter        *)
(* resolver and the execution context store.                               *)
(*                                                                         *)
(* JavaScript strings are sequences of one-character strings, so that      *)
(* charAt(0) and slice(1) are computed and not assumed.  JavaScript values *)
(* are tagged records; plain objects are functions from property names to  *)
(* values.                                                                 *)
(***************************************************************************)
EXTENDS Integers, Sequences, FiniteSets, TLC

VARIABLES
    nodePropertiesArray,   \* the field schema list handed to the operation
    parameterDependencies, \* the dependency lists handed to getParamterResolveOrder
    resolveState,          \* locals of getParamterResolveOrder
    displayCall,           \* arguments and result of one displayParameter call
    runExecutionData,      \* the run's execution data; contextData holds references
    heap,                  \* the context objects created so far, by reference
    contextCall,           \* outcome of the last getContext call per caller
    paramsCall,            \* arguments and results of getNodeParameters calls
    issuesCall,            \* arguments and result of one getParameterIssues call
    mergeCall,             \* issue trees under mergeIssues and nodeIssuesToString
    webhooksCall           \* arguments and results of the getNodeWebhooks calls

vars == <<nodePropertiesArray, parameterDependencies, resolveState, displayCall,
          runExecutionData, heap, contextCall, paramsCall, issuesCall,
          mergeCall, webhooksCall>>

-----------------------------------------------------------------------------
(* Bounds of the model *)

MaxFields == 2
MaxKeys == 2
MaxAlternatives == 5
MaxScalars == 3
MaxContainers == 2

-----------------------------------------------------------------------------
(* JavaScript values *)

Undefined == [t |-> "undefined"]
Str(s) == [t |-> "string", s |-> s]
Bool(b) == [t |-> "boolean", b |-> b]
Num(n) == [t |-> "number", n |-> n]
Arr(items) == [t |-> "array", items |-> items]
Obj(props) == [t |-> "object", props |-> props]

EmptyObject == Obj(<<>>)

\* String.prototype.charAt(0): "" for the empty string
CharAt0(s) == IF Len(s) = 0 THEN "" ELSE s[1]

\* String.prototype.slice(1)
Slice1(s) == IF Len(s) = 0 THEN s ELSE Tail(s)

\* Array.prototype.includes on a list of strings
Includes(list, x) == \E i \in 1..Len(list) : list[i] = x

\* the number a decimal digit stands for, -1 for any other character
DigitValue(ch) ==
    CASE ch = "0" -> 0 [] ch = "1" -> 1 [] ch = "2" -> 2 [] ch = "3" -> 3
      [] ch = "4" -> 4 [] OTHER -> -1

\* obj[name]: the property of an object, the element of an array when name
\* is an index, undefined otherwise
Prop(obj, name) ==
    IF obj.t = "object" /\ name \in DOMAIN obj.props THEN obj.props[name]
    ELSE IF obj.t = "array" /\ Len(name) = 1
            /\ DigitValue(name[1]) \in 0..(Len(obj.items) - 1)
    THEN obj.items[DigitValue(name[1]) + 1]
    ELSE Undefined

-----------------------------------------------------------------------------
(* displayParameter *)

\* the segments of a property path (lodash stringToPath): split at the
\* dots, an index in brackets is a segment of its own, and two dots in a
\* row or a dot at either end give an empty segment
RECURSIVE PathSegments(_, _)
PathSegments(path, current) ==
    IF path = <<>> THEN <<current>>
    ELSE IF Head(path) \in {".", "["}
    THEN <<current>> \o PathSegments(Tail(path), <<>>)
    ELSE IF Head(path) = "]"
    THEN IF Tail(path) # <<>> /\ Head(Tail(path)) \in {".", "["}
         THEN <<current>> \o PathSegments(Tail(Tail(path)), <<>>)
         ELSE IF Tail(path) = <<>> THEN <<current>>
         ELSE <<current>> \o PathSegments(Tail(path), <<>>)
    ELSE PathSegments(Tail(path), Append(current, Head(path)))

RECURSIVE GetSegments(_, _)
GetSegments(object, segments) ==
    IF segments = <<>> THEN object
    ELSE GetSegments(Prop(object, Head(segments)), Tail(segments))

\* lodash get(object, path)
Get(object, path) == GetSegments(object, PathSegments(path, <<>>))

\* nodeValuesRoot for keys starting with '/', nodeValues for the others
ReferencedValue(nodeValues, nodeValuesRoot, propertyName) ==
    IF CharAt0(propertyName) = "/"
    THEN Get(nodeValuesRoot, Slice1(propertyName))
    ELSE Get(nodeValues, propertyName)

\* the list "values": a value that is no array is wrapped, an array is
\* taken as it is
ValueList(value) == IF value.t = "array" THEN value.items ELSE <<value>>

IsExpression(v) == v.t = "string" /\ CharAt0(v.s) = "="

\* values.includes(v): equality of primitives, identity of objects (which a
\* value of the schema never shares with a value of the node)
ValuesInclude(values, v) ==
    /\ v.t \in {"undefined", "string", "boolean", "number"}
    /\ \E i \in 1..Len(values) : values[i] = v

\* accepted.some(v => values.includes(v))
SomeIncluded(accepted, values) ==
    \E i \in 1..Len(accepted) : ValuesInclude(values, accepted[i])

\* ShowOutcome going on to the hide rule as soon as one key matches
RECURSIVE ShowOutcomeAnyKey(_, _, _)
ShowOutcomeAnyKey(nodeValues, nodeValuesRoot, show) ==
    IF show = <<>> THEN "next"
    ELSE LET values == ValueList(ReferencedValue(nodeValues, nodeValuesRoot,
                                                 Head(show).key))
         IN  IF \E i \in 1..Len(values) : IsExpression(values[i])
             THEN "visible"
             ELSE IF Len(values) # 0 /\ SomeIncluded(Head(show).values, values)
             THEN "next"
             ELSE IF Tail(show) = <<>> THEN "hidden"
             ELSE ShowOutcomeAnyKey(nodeValues, nodeValuesRoot, Tail(show))

\* the loop over the show keys: "visible" and "hidden" are returns out of
\* displayParameter, "next" goes on to the hide rule
RECURSIVE ShowOutcome(_, _, _)
ShowOutcome(nodeValues, nodeValuesRoot, show) ==
    IF show = <<>> THEN "next"
    ELSE LET values == ValueList(ReferencedValue(nodeValues, nodeValuesRoot,
                                                 Head(show).key))
         IN  IF \E i \in 1..Len(values) : IsExpression(values[i])
             THEN "visible"
             ELSE IF Len(values) = 0 \/ ~SomeIncluded(Head(show).values, values)
             THEN "hidden"
             ELSE ShowOutcome(nodeValues, nodeValuesRoot, Tail(show))

\* the loop over the hide keys
RECURSIVE HideOutcome(_, _, _)
HideOutcome(nodeValues, nodeValuesRoot, hide) ==
    IF hide = <<>> THEN "visible"
    ELSE LET values == ValueList(ReferencedValue(nodeValues, nodeValuesRoot,
                                                 Head(hide).key))
         IN  IF Len(values) # 0 /\ SomeIncluded(Head(hide).values, values)
             THEN "hidden"
             ELSE HideOutcome(nodeValues, nodeValuesRoot, Tail(hide))

\* nodeValuesRootArg is Undefined when the caller passes no root
displayParameter(nodeValues, parameter, nodeValuesRootArg) ==
    IF parameter.displayOptions = Undefined THEN TRUE
    ELSE LET nodeValuesRoot == IF nodeValuesRootArg = Undefined THEN nodeValues
                               ELSE nodeValuesRootArg
             options == parameter.displayOptions
             shown == IF "show" \in DOMAIN options
                      THEN ShowOutcome(nodeValues, nodeValuesRoot, options.show)
                      ELSE "next"
         IN  IF shown = "visible" THEN TRUE
             ELSE IF shown = "hidden" THEN FALSE
             ELSE IF "hide" \in DOMAIN options
             THEN HideOutcome(nodeValues, nodeValuesRoot, options.hide) = "visible"
             ELSE TRUE

-----------------------------------------------------------------------------
(* getContext *)

FlowType == <<"f", "l", "o", "w">>
NodeType == <<"n", "o", "d", "e">>

\* the template literal `node:${node.name}`
NodeKey(node) == NodeType \o <<":">> \o node.name

\* ContextKey without the check that a node is passed
ContextKeyNodeNotChecked(type, node) ==
    IF type = FlowType THEN [key |-> FlowType]
    ELSE IF type = NodeType
    THEN IF node = Undefined
         THEN [key |-> NodeType \o <<":">> \o <<"u", "n", "d", "e", "f">>]
         ELSE [key |-> NodeKey(node)]
    ELSE [error |-> "type not known"]

\* the key of the request, or the error thrown while computing it
ContextKey(type, node) ==
    IF type = FlowType THEN [key |-> FlowType]
    ELSE IF type = NodeType
    THEN IF node = Undefined THEN [error |-> "node not set"]
         ELSE [key |-> NodeKey(node)]
    ELSE [error |-> "type not known"]

\* ContextEntry assigning a new object whether or not the key has one
ContextEntryAlwaysCreated(contextData, objects, key) ==
    [context |-> Len(objects) + 1,
     contextData |-> (key :> (Len(objects) + 1)) @@
                     [k \in (DOMAIN contextData) \ {key} |-> contextData[k]],
     heap |-> Append(objects, <<>>)]

\* the check for an existing entry and the creation of a missing one: the
\* reference of the key's object, contextData and the heap afterwards
ContextEntry(contextData, objects, key) ==
    IF key \notin DOMAIN contextData
    THEN [context |-> Len(objects) + 1,
          contextData |-> (key :> (Len(objects) + 1)) @@ contextData,
          heap |-> Append(objects, <<>>)]
    ELSE [context |-> contextData[key],
          contextData |-> contextData,
          heap |-> objects]

\* the outcome of a call: thrown with the store as it was, or returned with
\* the reference of the key's context object and the store after the call
getContext(run, objects, type, node) ==
    IF run.executionData = Undefined
    THEN [status |-> "thrown", error |-> "not initialized",
          run |-> run, heap |-> objects]
    ELSE LET request == ContextKey(type, node)
         IN  IF "error" \in DOMAIN request
             THEN [status |-> "thrown", error |-> request.error,
                   run |-> run, heap |-> objects]
             ELSE LET entry == ContextEntry(run.executionData.contextData,
                                            objects, request.key)
                  IN  [status |-> "returned", key |-> request.key,
                       context |-> entry.context,
                       run |-> [run EXCEPT !.executionData.contextData =
                                               entry.contextData],
                       heap |-> entry.heap]

-----------------------------------------------------------------------------
(* getParamterDependencies *)

\* Object.keys of a display rule (an ordered list of [key, values] entries)
RuleKeys(rule) == [i \in 1..Len(rule) |-> rule[i].key]

\* Object.keys(displayOptions): the rules in declaration order, each an
\* ordered list of entries
DisplayRules(displayOptions) ==
    (IF "show" \in DOMAIN displayOptions THEN <<displayOptions.show>> ELSE <<>>)
    \o (IF "hide" \in DOMAIN displayOptions THEN <<displayOptions.hide>> ELSE <<>>)

RECURSIVE PushMissing(_, _)
\* for (parameterName of keys) if (!list.includes(parameterName)) list.push(...)
PushMissing(list, keys) ==
    IF keys = <<>> THEN list
    ELSE PushMissing(IF Includes(list, Head(keys)) THEN list
                     ELSE Append(list, Head(keys)), Tail(keys))

RECURSIVE PushRules(_, _)
PushRules(list, rules) ==
    IF rules = <<>> THEN list
    ELSE PushRules(PushMissing(list, RuleKeys(Head(rules))), Tail(rules))

RECURSIVE DependenciesFrom(_, _)
DependenciesFrom(dependencies, props) ==
    IF props = <<>> THEN dependencies
    ELSE LET p == Head(props)
             old == IF p.name \in DOMAIN dependencies
                    THEN dependencies[p.name] ELSE <<>>
             new == IF p.displayOptions = Undefined THEN old
                    ELSE PushRules(old, DisplayRules(p.displayOptions))
             others == [n \in (DOMAIN dependencies) \ {p.name} |-> dependencies[n]]
         IN  DependenciesFrom((p.name :> new) @@ others, Tail(props))

getParamterDependencies(props) == DependenciesFrom(<<>>, props)

-----------------------------------------------------------------------------
(* getParamterResolveOrder *)

\* the locals before the first evaluation of the while condition
ResolveOrderStart(props) ==
    [executionOrder |-> <<>>,
     indexToResolve |-> [k \in 1..Len(props) |-> k - 1],
     resolvedParamters |-> <<>>,
     lastIndexLength |-> Len(props),
     lastIndexReduction |-> -1,
     itterations |-> 0,
     status |-> IF Len(props) = 0 THEN "return" ELSE "loop"]

\* Requeues without the check for a leading '/'
RECURSIVE RequeuesRootNotSkipped(_, _, _)
RequeuesRootNotSkipped(dependencies, resolved, index) ==
    IF dependencies = <<>> THEN <<>>
    ELSE LET rest == RequeuesRootNotSkipped(Tail(dependencies), resolved, index)
         IN  IF ~Includes(resolved, Head(dependencies))
             THEN <<index>> \o rest
             ELSE rest

\* one copy of index per execution of indexToResolve.push(index) in the
\* for loop over the dependencies
RECURSIVE Requeues(_, _, _)
Requeues(dependencies, resolved, index) ==
    IF dependencies = <<>> THEN <<>>
    ELSE LET dependency == Head(dependencies)
             rest == Requeues(Tail(dependencies), resolved, index)
         IN  IF ~Includes(resolved, dependency)
             THEN IF CharAt0(dependency) = "/" THEN rest
                  ELSE <<index>> \o rest
             ELSE rest

\* one iteration of the while loop, followed by the loop condition
ResolveOrderIteration(props, deps, st) ==
    LET itterations == st.itterations + 1
        index == Head(st.indexToResolve)
        shifted == Tail(st.indexToResolve)
        property == props[index + 1]
        dependencies == deps[property.name]
    IN  IF Len(dependencies) = 0
        THEN [st EXCEPT !.itterations = itterations,
                        !.indexToResolve = shifted,
                        !.executionOrder = Append(@, index),
                        !.resolvedParamters = Append(@, property.name),
                        !.status = IF shifted = <<>> THEN "return" ELSE "loop"]
        ELSE LET queue == shifted \o Requeues(dependencies, st.resolvedParamters, index)
                 reduction == IF Len(queue) < st.lastIndexLength
                              THEN itterations ELSE st.lastIndexReduction
             IN  [executionOrder |-> Append(st.executionOrder, index),
                  indexToResolve |-> queue,
                  resolvedParamters |-> Append(st.resolvedParamters, property.name),
                  lastIndexReduction |-> reduction,
                  itterations |-> itterations,
                  lastIndexLength |->
                      IF itterations > reduction + Len(props)
                      THEN st.lastIndexLength ELSE Len(queue),
                  status |-> IF itterations > reduction + Len(props) THEN "throw"
                             ELSE IF queue = <<>> THEN "return" ELSE "loop"]

RECURSIVE ResolveOrderRun(_, _, _)
ResolveOrderRun(props, deps, st) ==
    IF st.status # "loop" THEN st
    ELSE ResolveOrderRun(props, deps,
                         ResolveOrderIteration(props, deps, st))

\* the whole call: status "return" with executionOrder, or status "throw"
getParamterResolveOrder(props, deps) ==
    ResolveOrderRun(props, deps, ResolveOrderStart(props))

-----------------------------------------------------------------------------
(* getNodeParameters *)

\* the parentType of a call that passes none
NoParentType == "undefined"

Returned(value) == [status |-> "return", value |-> value]
Thrown(error) == [status |-> "throw", error |-> error]

\* object[name] = value
SetProp(object, name, value) ==
    Obj((name :> value) @@
        [k \in (DOMAIN object.props) \ {name} |-> object.props[k]])

\* the values JavaScript treats as false in "value || default"
Falsy(v) ==
    v \in {Undefined, Str(<<>>), Num(0), Bool(FALSE)}

\* typeof v === 'object'
TypeofObject(v) == v.t \in {"object", "array"}

\* lodash isEqual: deep comparison by value
IsEqual(v, w) == v = w

\* JSON.parse(JSON.stringify(v)): a copy without the properties whose value
\* is undefined
RECURSIVE JsonClone(_)
JsonClone(v) ==
    IF v.t = "object"
    THEN Obj([k \in {n \in DOMAIN v.props : v.props[n] # Undefined} |->
                 JsonClone(v.props[k])])
    ELSE IF v.t = "array"
    THEN Arr([i \in 1..Len(v.items) |-> JsonClone(v.items[i])])
    ELSE v

\* the names that more than one field of the list has
DuplicateParameterNames(props) ==
    {props[j].name : j \in {j \in 1..Len(props) :
                               \E i \in 1..(j - 1) : props[i].name = props[j].name}}

\* options.find(option => option.name === itemName): the index of the first
\* option with the name, 0 when there is none
FindOption(options, itemName) ==
    IF \E i \in 1..Len(options) : options[i].name = itemName
    THEN CHOOSE i \in 1..Len(options) :
             /\ options[i].name = itemName
             /\ \A j \in 1..(i - 1) : options[j].name # itemName
    ELSE 0

\* SimpleWithDefault using "value || default" for every type
SimpleWithDefaultAllTypes(p, v) ==
    IF Falsy(v) THEN p.default ELSE v

\* the value of a simple field when defaults are returned
SimpleWithDefault(p, v) ==
    IF p.type \in {"boolean", "number", "options"}
    THEN IF v # Undefined THEN v ELSE p.default
    ELSE IF Falsy(v) THEN p.default ELSE v

\* the condition under which a simple field is set when no defaults are
\* returned
DiffersFromDefault(p, v, parentType) ==
    \/ (v # p.default /\ ~TypeofObject(v))
    \/ (TypeofObject(v) /\ ~IsEqual(v, p.default))
    \/ (v # Undefined /\ parentType = "collection")

\* NodeValuesDisplayCheck that always is the result built so far
NodeValuesDisplayCheckLive(c, nodeParameters) ==
    nodeParameters

\* the tree the display conditions are evaluated on: the result built so
\* far (nodeParametersFull), or the baseline when the call computed one
NodeValuesDisplayCheck(c, nodeParameters) ==
    IF c.checkIsResult THEN nodeParameters ELSE c.baseline

RECURSIVE getNodeParameters(_, _, _, _, _, _, _, _)
RECURSIVE ProcessOrder(_, _, _)
RECURSIVE FixedCollectionArray(_, _, _, _, _, _)
RECURSIVE FixedCollectionArraySkipsEmpty(_, _, _, _, _, _)
RECURSIVE FixedCollectionItems(_, _, _, _, _, _)

\* FixedCollectionArray leaving out the items that resolve to an empty object
FixedCollectionArraySkipsEmpty(c, p, itemName, root, items, tempArrayValue) ==
    IF items = <<>> THEN Returned(Arr(tempArrayValue))
    ELSE LET found == FindOption(p.options, itemName)
         IN  IF found = 0 THEN Thrown("Could not find property option")
             ELSE LET tempValue ==
                          getNodeParameters(p.options[found].values, Head(items),
                                            c.returnDefaults, c.returnNoneDisplayed,
                                            FALSE, FALSE, root, p.type)
                  IN  IF tempValue.status = "throw" THEN tempValue
                      ELSE FixedCollectionArraySkipsEmpty(c, p, itemName, root,
                               Tail(items),
                               IF DOMAIN tempValue.value.props = {}
                               THEN tempArrayValue
                               ELSE Append(tempArrayValue, tempValue.value))

\* the loop over the items of one alternative of a fixedCollection with
\* multipleValues; root is nodeValuesRoot at the time of the call
FixedCollectionArray(c, p, itemName, root, items, tempArrayValue) ==
    IF items = <<>> THEN Returned(Arr(tempArrayValue))
    ELSE LET found == FindOption(p.options, itemName)
         IN  IF found = 0 THEN Thrown("Could not find property option")
             ELSE LET tempValue ==
                          getNodeParameters(p.options[found].values, Head(items),
                                            c.returnDefaults, c.returnNoneDisplayed,
                                            FALSE, FALSE, root, p.type)
                  IN  IF tempValue.status = "throw" THEN tempValue
                      ELSE FixedCollectionArray(c, p, itemName, root, Tail(items),
                                                Append(tempArrayValue,
                                                       tempValue.value))

\* the loop over Object.keys(propertyValues || {}) of a fixedCollection
FixedCollectionItems(c, p, propertyValues, root, itemNames, collectionValues) ==
    IF itemNames = {} THEN Returned(collectionValues)
    ELSE LET itemName == CHOOSE n \in itemNames : TRUE
             rest == itemNames \ {itemName}
             found == FindOption(p.options, itemName)
         IN  IF p.multipleValues
             THEN IF propertyValues.props[itemName].t # "array"
                  THEN Thrown("TypeError: not iterable")
                  ELSE LET tempArrayValue ==
                               FixedCollectionArray(c, p, itemName, root,
                                   propertyValues.props[itemName].items, <<>>)
                       IN  IF tempArrayValue.status = "throw" THEN tempArrayValue
                           ELSE FixedCollectionItems(c, p, propertyValues, root, rest,
                                    SetProp(collectionValues, itemName,
                                            tempArrayValue.value))
             ELSE IF found = 0
             THEN FixedCollectionItems(c, p, propertyValues, root, rest,
                                       collectionValues)
             ELSE IF Prop(c.nodeValues, p.name) = Undefined
             THEN Thrown("TypeError: property of undefined")
             ELSE LET tempValue ==
                          getNodeParameters(p.options[found].values,
                              Prop(Prop(c.nodeValues, p.name), itemName),
                              c.returnDefaults, c.returnNoneDisplayed,
                              FALSE, FALSE, root, p.type)
                  IN  IF tempValue.status = "throw" THEN tempValue
                      ELSE FixedCollectionItems(c, p, propertyValues, root, rest,
                               IF DOMAIN tempValue.value.props # {}
                               THEN SetProp(collectionValues, itemName,
                                            tempValue.value)
                               ELSE collectionValues)

\* the body of the loop over the fields for one field: the parameters
\* afterwards, or the error thrown
ProcessField(c, p, nodeParameters) ==
    LET v == Prop(c.nodeValues, p.name)
        nodeValuesDisplayCheck == NodeValuesDisplayCheck(c, nodeParameters)
        nodeValuesRoot ==
            IF c.nodeValuesRoot # Undefined THEN c.nodeValuesRoot
            ELSE nodeValuesDisplayCheck
        displayed == displayParameter(nodeValuesDisplayCheck, p, nodeValuesRoot)
    IN  IF v = Undefined /\ (~c.returnDefaults \/ c.parentType = "collection")
        THEN Returned(nodeParameters)
        ELSE IF ~c.returnNoneDisplayed /\ ~displayed
        THEN Returned(nodeParameters)
        ELSE IF p.type \notin {"collection", "fixedCollection"}
        THEN IF p.name \in c.duplicateParameterNames /\ ~displayed
             THEN Returned(nodeParameters)
             ELSE IF c.returnDefaults
             THEN Returned(SetProp(nodeParameters, p.name, SimpleWithDefault(p, v)))
             ELSE IF DiffersFromDefault(p, v, c.parentType)
             THEN Returned(SetProp(nodeParameters, p.name, v))
             ELSE Returned(nodeParameters)
        ELSE IF c.onlySimpleTypes
        THEN Returned(nodeParameters)
        ELSE IF p.type = "collection"
        THEN IF p.multipleValues
             THEN IF v # Undefined
                  THEN Returned(SetProp(nodeParameters, p.name, v))
                  ELSE IF c.returnDefaults
                  THEN Returned(SetProp(nodeParameters, p.name,
                                        IF p.default.t = "array"
                                        THEN JsonClone(p.default) ELSE Arr(<<>>)))
                  ELSE Returned(nodeParameters)
             ELSE IF v # Undefined
             THEN LET tempNodeParameters ==
                          getNodeParameters(p.options, v, c.returnDefaults,
                                            c.returnNoneDisplayed, FALSE, FALSE,
                                            nodeValuesRoot, p.type)
                  IN  IF tempNodeParameters.status = "throw"
                      THEN tempNodeParameters
                      ELSE Returned(SetProp(nodeParameters, p.name,
                                            tempNodeParameters.value))
             ELSE IF c.returnDefaults
             THEN Returned(SetProp(nodeParameters, p.name, JsonClone(p.default)))
             ELSE Returned(nodeParameters)
        ELSE LET propertyValues ==
                     IF c.returnDefaults /\ v = Undefined
                     THEN JsonClone(p.default) ELSE v
                 collectionValues ==
                     FixedCollectionItems(c, p, propertyValues, nodeValuesRoot,
                         IF propertyValues.t = "object"
                         THEN DOMAIN propertyValues.props ELSE {},
                         EmptyObject)
             IN  IF collectionValues.status = "throw" THEN collectionValues
                 ELSE IF DOMAIN collectionValues.value.props # {}
                         \/ c.returnDefaults
                 THEN Returned(SetProp(nodeParameters, p.name,
                                       collectionValues.value))
                 ELSE Returned(nodeParameters)

\* the loop over parameterItterationOrderIndex
ProcessOrder(c, order, nodeParameters) ==
    IF order = <<>> THEN Returned(nodeParameters)
    ELSE LET step == ProcessField(c, c.nodePropertiesArray[Head(order) + 1],
                                  nodeParameters)
         IN  IF step.status = "throw" THEN step
             ELSE ProcessOrder(c, Tail(order), step.value)

\* nodeValuesRoot is Undefined and parentType is NoParentType when the caller
\* passes none; parameterDependencies is always getParamterDependencies of
\* the same list
getNodeParameters(props, nodeValues, returnDefaults, returnNoneDisplayed, onlySimpleTypes, dataIsResolved, nodeValuesRoot, parentType) ==
    LET checkIsResult == ~(dataIsResolved # TRUE /\ returnNoneDisplayed = FALSE)
        baseline ==
            IF checkIsResult THEN Returned(EmptyObject)
            ELSE getNodeParameters(props, nodeValues, TRUE, TRUE, TRUE, TRUE,
                                   nodeValuesRoot, parentType)
    IN  IF baseline.status = "throw" THEN baseline
        ELSE LET order == getParamterResolveOrder(props,
                                                  getParamterDependencies(props))
             IN  IF order.status = "throw"
                 THEN Thrown("Could not resolve parameter depenencies")
                 ELSE ProcessOrder(
                          [nodePropertiesArray |-> props,
                           nodeValues |-> nodeValues,
                           returnDefaults |-> returnDefaults,
                           returnNoneDisplayed |-> returnNoneDisplayed,
                           onlySimpleTypes |-> onlySimpleTypes,
                           checkIsResult |-> checkIsResult,
                           baseline |-> baseline.value,
                           nodeValuesRoot |-> nodeValuesRoot,
                           parentType |-> parentType,
                           duplicateParameterNames |->
                               DuplicateParameterNames(props)],
                          order.executionOrder, EmptyObject)

-----------------------------------------------------------------------------
(* displayParameterPath, getParameterIssues, mergeIssues *)

Null == [t |-> "null"]

\* path.split('.')[0]
RECURSIVE FirstSplit(_)
FirstSplit(path) ==
    IF path = <<>> \/ Head(path) = "." THEN <<>>
    ELSE <<Head(path)>> \o FirstSplit(Tail(path))

ParametersWord == <<"p", "a", "r", "a", "m", "e", "t", "e", "r", "s">>

displayParameterPath(nodeValues, parameter, path) ==
    LET resolvedNodeValues ==
            IF path # <<>> THEN Get(nodeValues, path) ELSE nodeValues
        nodeValuesRoot ==
            IF path # <<>> /\ FirstSplit(path) = ParametersWord
            THEN Get(nodeValues, ParametersWord)
            ELSE nodeValues
    IN  displayParameter(resolvedNodeValues, parameter, nodeValuesRoot)

\* an object of message lists by field name; entries are in the order in
\* which the names were added
IssueMap(entries) == [t |-> "map", entries |-> entries]

\* an issue tree without any property: {}
NoIssues ==
    [execution |-> Undefined, parameters |-> Undefined,
     credentials |-> Undefined, typeUnknown |-> Undefined]

\* map[name] = map[name] || [], then map[name].push(...messages)
PushMessages(map, name, messages) ==
    IF \E i \in 1..Len(map.entries) : map.entries[i].name = name
    THEN IssueMap([i \in 1..Len(map.entries) |->
                      IF map.entries[i].name = name
                      THEN [name |-> name,
                            messages |-> map.entries[i].messages \o messages]
                      ELSE map.entries[i]])
    ELSE IssueMap(Append(map.entries, [name |-> name, messages |-> messages]))

\* the template literal `Parameter "${displayName}" is required.`
RequiredMessage(displayName) ==
    <<"Parameter \"">> \o displayName \o <<"\" is required.">>

\* addToIssuesIfMissing taking the empty string for a value
addToIssuesIfMissingUndefinedOnly(foundIssues, nodeProperties, value) ==
    IF \/ (nodeProperties.type = "string" /\ value = Undefined)
       \/ (nodeProperties.type = "multiOptions"
              /\ value.t = "array" /\ Len(value.items) = 0)
       \/ (nodeProperties.type = "dateTime" /\ value = Undefined)
    THEN [foundIssues EXCEPT !.parameters =
             PushMessages(IF @ = Undefined THEN IssueMap(<<>>) ELSE @,
                          nodeProperties.name,
                          <<RequiredMessage(nodeProperties.displayName)>>)]
    ELSE foundIssues

addToIssuesIfMissing(foundIssues, nodeProperties, value) ==
    IF \/ (nodeProperties.type = "string"
              /\ (value = Str(<<>>) \/ value = Undefined))
       \/ (nodeProperties.type = "multiOptions"
              /\ value.t = "array" /\ Len(value.items) = 0)
       \/ (nodeProperties.type = "dateTime" /\ value = Undefined)
    THEN [foundIssues EXCEPT !.parameters =
             PushMessages(IF @ = Undefined THEN IssueMap(<<>>) ELSE @,
                          nodeProperties.name,
                          <<RequiredMessage(nodeProperties.displayName)>>)]
    ELSE foundIssues

getParameterValueByPath(nodeValues, parameterName, path) ==
    Get(nodeValues,
        IF path # <<>> THEN path \o <<".">> \o parameterName ELSE parameterName)

\* the loop over Object.keys(source[propertyName])
RECURSIVE MergeEntries(_, _)
MergeEntries(destinationProperty, entries) ==
    IF entries = <<>> THEN destinationProperty
    ELSE MergeEntries(PushMessages(destinationProperty, Head(entries).name,
                                   Head(entries).messages),
                      Tail(entries))

\* MergeProperty keeping the lists the destination has: a field's list is
\* only set when the destination has none for it
MergePropertyNoAppend(destination, source, propertyName) ==
    IF source[propertyName] = Undefined THEN destination
    ELSE [destination EXCEPT ![propertyName] =
             LET map == IF @ = Undefined THEN IssueMap(<<>>) ELSE @
                 fresh == SelectSeq(source[propertyName].entries,
                              LAMBDA e : \A i \in 1..Len(map.entries) :
                                             map.entries[i].name # e.name)
             IN  IssueMap(map.entries \o fresh)]

\* one round of the loop over 'parameters' and 'credentials'
MergeProperty(destination, source, propertyName) ==
    IF source[propertyName] = Undefined THEN destination
    ELSE [destination EXCEPT ![propertyName] =
             MergeEntries(IF @ = Undefined THEN IssueMap(<<>>) ELSE @,
                          source[propertyName].entries)]

\* the destination after mergeIssues(destination, source)
mergeIssues(destination, source) ==
    IF source = Null THEN destination
    ELSE LET executed ==
                 IF source.execution = Bool(TRUE)
                 THEN [destination EXCEPT !.execution = Bool(TRUE)]
                 ELSE destination
             merged ==
                 MergeProperty(MergeProperty(executed, source, "parameters"),
                               source, "credentials")
         IN  IF source.typeUnknown = Bool(TRUE)
             THEN [merged EXCEPT !.typeUnknown = Bool(TRUE)]
             ELSE merged

\* the character of an array index in a template literal
DigitChar(i) ==
    CASE i = 0 -> "0" [] i = 1 -> "1" [] i = 2 -> "2" [] i = 3 -> "3"
      [] OTHER -> "4"

\* String.prototype.slice(0, -1)
SliceLast(s) == IF Len(s) = 0 THEN s ELSE SubSeq(s, 1, Len(s) - 1)

\* the entries of checkChildNodeProperties for a list of child fields
ChildrenAt(basePath, fields) ==
    [j \in 1..Len(fields) |-> [basePath |-> basePath, data |-> fields[j]]]

\* the entries for the items 0..n-1 of an alternative given as an array
RECURSIVE ChildrenOfItems(_, _, _, _)
ChildrenOfItems(basePath, propertyOptions, i, n) ==
    IF i >= n THEN <<>>
    ELSE ChildrenAt(basePath \o propertyOptions.name
                        \o <<"[", DigitChar(i), "]">>,
                    propertyOptions.values)
         \o ChildrenOfItems(basePath, propertyOptions, i + 1, n)

\* the base path of the alternatives of a fixedCollection:
\* basePath ? `${basePath}.` : '' + nodeProperties.name + '.'
FixedCollectionBasePath(basePath, nodeProperties) ==
    IF basePath # <<>> THEN basePath \o <<".">>
    ELSE nodeProperties.name \o <<".">>

\* the loop over the options of a fixedCollection
RECURSIVE CollectAlternatives(_, _, _, _)
CollectAlternatives(nodeProperties, nodeValues, basePath, options) ==
    IF options = <<>> THEN <<>>
    ELSE LET propertyOptions == Head(options)
             value == getParameterValueByPath(nodeValues, propertyOptions.name,
                                              SliceLast(basePath))
             children ==
                 IF value = Undefined THEN <<>>
                 ELSE IF nodeProperties.multipleValues # Undefined
                 THEN IF value.t = "array"
                      THEN ChildrenOfItems(basePath, propertyOptions, 0,
                                           Len(value.items))
                      ELSE <<>>
                 ELSE ChildrenAt(basePath \o propertyOptions.name,
                                 propertyOptions.values)
         IN  children \o CollectAlternatives(nodeProperties, nodeValues,
                                              basePath, Tail(options))

\* the loop over the elements of a required field with multipleValues
RECURSIVE AddIfMissingEach(_, _, _)
AddIfMissingEach(foundIssues, nodeProperties, values) ==
    IF values = <<>> THEN foundIssues
    ELSE AddIfMissingEach(
             addToIssuesIfMissing(foundIssues, nodeProperties, Head(values)),
             nodeProperties, Tail(values))

\* the check of the field itself (lines 1060-1076)
RequiredIssues(nodeProperties, nodeValues, path) ==
    IF nodeProperties.required = TRUE
       /\ displayParameterPath(nodeValues, nodeProperties, path)
    THEN LET value == getParameterValueByPath(nodeValues, nodeProperties.name,
                                              path)
         IN  IF nodeProperties.multipleValues # Undefined
             THEN IF value.t = "array"
                  THEN AddIfMissingEach(NoIssues, nodeProperties, value.items)
                  ELSE NoIssues
             ELSE addToIssuesIfMissing(NoIssues, nodeProperties, value)
    ELSE NoIssues

RECURSIVE getParameterIssues(_, _, _)
RECURSIVE CheckChildren(_, _, _)

\* the loop over checkChildNodeProperties
CheckChildren(foundIssues, nodeValues, checkChildNodeProperties) ==
    IF checkChildNodeProperties = <<>> THEN foundIssues
    ELSE LET optionData == Head(checkChildNodeProperties)
             propertyIssues == getParameterIssues(optionData.data, nodeValues,
                                                  optionData.basePath)
         IN  CheckChildren(mergeIssues(foundIssues, propertyIssues), nodeValues,
                           Tail(checkChildNodeProperties))

\* multipleValues is Undefined for a field without that type option,
\* options is Undefined for a field without options and an array otherwise
getParameterIssues(nodeProperties, nodeValues, path) ==
    LET foundIssues == RequiredIssues(nodeProperties, nodeValues, path)
        basePath == IF path # <<>> THEN path \o <<".">> ELSE <<>>
    IN  IF nodeProperties.options = Undefined THEN foundIssues
        ELSE IF nodeProperties.type = "collection"
        THEN CheckChildren(foundIssues, nodeValues,
                           ChildrenAt(basePath, nodeProperties.options.items))
        ELSE IF nodeProperties.type = "fixedCollection"
        THEN CheckChildren(foundIssues, nodeValues,
                 CollectAlternatives(nodeProperties, nodeValues,
                     FixedCollectionBasePath(basePath, nodeProperties),
                     nodeProperties.options.items))
        ELSE foundIssues

\* the loop over the messages of Object.keys(issues[propertyName])
RECURSIVE IssueTexts(_)
IssueTexts(entries) ==
    IF entries = <<>> THEN <<>>
    ELSE Head(entries).messages \o IssueTexts(Tail(entries))

\* the lines of one of 'parameters' and 'credentials'
PropertyTexts(issues, propertyName) ==
    IF issues[propertyName] = Undefined THEN <<>>
    ELSE IssueTexts(issues[propertyName].entries)

ExecutionSentence == <<"Execution Error.">>

\* node is Undefined when the caller passes none
TypeUnknownSentence(node) ==
    IF node # Undefined
    THEN <<"Node Type \"">> \o node.type \o <<"\" is not known.">>
    ELSE <<"Node Type is not known.">>

nodeIssuesToString(issues, node) ==
    (IF issues.execution # Undefined THEN <<ExecutionSentence>> ELSE <<>>)
    \o PropertyTexts(issues, "parameters")
    \o PropertyTexts(issues, "credentials")
    \o (IF issues.typeUnknown # Undefined THEN <<TypeUnknownSentence(node)>>
        ELSE <<>>)

-----------------------------------------------------------------------------
(* getNodeWebhooks, getNodeWebhooksBasic, getNodeWebhookPath *)

\* a descriptor value that is an expression, with the value the expression
\* evaluator resolves it to
Expression(value) == [t |-> "expression", value |-> value]

\* workflow.expression.getSimpleParameterValue(node, parameterValue, mode,
\* {}, defaultValue): the default for an undefined parameter value, the
\* resolved value of an expression, any other value as it is
getSimpleParameterValue(parameterValue, defaultValue) ==
    IF parameterValue = Undefined THEN defaultValue
    ELSE IF parameterValue.t = "expression" THEN parameterValue.value
    ELSE parameterValue

StartsWith(s, ch) == Len(s) > 0 /\ s[1] = ch

EndsWith(s, ch) == Len(s) > 0 /\ s[Len(s)] = ch

\* path.includes('/:')
IncludesSlashColon(s) ==
    \E i \in 1..(Len(s) - 1) : s[i] = "/" /\ s[i + 1] = ":"

\* the two trims of the resolved path
TrimmedPath(nodeWebhookPath) ==
    LET head == IF StartsWith(nodeWebhookPath, "/") THEN Tail(nodeWebhookPath)
                ELSE nodeWebhookPath
    IN  IF EndsWith(head, "/") THEN SliceLast(head) ELSE head

\* String.prototype.toLowerCase on the letters of the model
LowerChar(ch) ==
    CASE ch = "M" -> "m" [] ch = "N" -> "n" [] OTHER -> ch

RECURSIVE ToLowerCase(_)
ToLowerCase(s) ==
    IF s = <<>> THEN <<>> ELSE <<LowerChar(Head(s))>> \o ToLowerCase(Tail(s))

\* encodeURIComponent on the characters of the model: letters and digits
\* stay, a space, a slash and a colon are escaped
EncodeChar(ch) ==
    CASE ch = " " -> <<"%", "2", "0">>
      [] ch = "/" -> <<"%", "2", "F">>
      [] ch = ":" -> <<"%", "3", "A">>
      [] OTHER -> <<ch>>

RECURSIVE EncodeURIComponent(_)
EncodeURIComponent(s) ==
    IF s = <<>> THEN <<>> ELSE EncodeChar(Head(s)) \o EncodeURIComponent(Tail(s))

\* getNodeWebhookPath without the prefix of a node that has a webhookId
getNodeWebhookPathNoIdPrefix(workflowId, node, path, isFullPath, restartWebhook) ==
    IF restartWebhook = Bool(TRUE) THEN path
    ELSE IF node.webhookId = Undefined
    THEN workflowId \o <<"/">> \o EncodeURIComponent(ToLowerCase(node.name))
             \o <<"/">> \o path
    ELSE path

\* isFullPath and restartWebhook are Undefined when the caller passes none
getNodeWebhookPath(workflowId, node, path, isFullPath, restartWebhook) ==
    IF restartWebhook = Bool(TRUE) THEN path
    ELSE IF node.webhookId = Undefined
    THEN workflowId \o <<"/">> \o EncodeURIComponent(ToLowerCase(node.name))
             \o <<"/">> \o path
    ELSE IF isFullPath = Bool(TRUE) THEN path
    ELSE node.webhookId.s \o <<"/">> \o path

UnsavedWorkflowId ==
    <<"_", "_", "U", "N", "S", "A", "V", "E", "D", "_", "_">>

\* workflow.id || '__UNSAVED__'
WorkflowIdOf(workflow) ==
    IF Falsy(workflow.id) THEN UnsavedWorkflowId ELSE workflow.id.s

\* WebhookRoutes ending the loop at a descriptor whose path does not
\* resolve
RECURSIVE WebhookRoutesStopAtUnresolved(_, _, _, _)
WebhookRoutesStopAtUnresolved(workflow, node, ignoreRestartWehbooks, webhooks) ==
    IF webhooks = <<>> THEN <<>>
    ELSE LET webhookDescription == Head(webhooks)
             workflowId == WorkflowIdOf(workflow)
             resolved == getSimpleParameterValue(webhookDescription.path,
                                                 Undefined)
             rest == WebhookRoutesStopAtUnresolved(workflow, node,
                         ignoreRestartWehbooks, Tail(webhooks))
         IN  IF resolved = Undefined THEN <<>>
             ELSE LET nodeWebhookPath == TrimmedPath(resolved.s)
                      isFullPath ==
                          getSimpleParameterValue(webhookDescription.isFullPath,
                                                  Bool(FALSE))
                      restartWebhook ==
                          getSimpleParameterValue(
                              webhookDescription.restartWebhook, Bool(FALSE))
                      path == getNodeWebhookPath(workflowId, node,
                                  nodeWebhookPath, isFullPath, restartWebhook)
                      httpMethod ==
                          getSimpleParameterValue(webhookDescription.httpMethod,
                                                  Str(<<"G", "E", "T">>))
                  IN  IF ignoreRestartWehbooks
                         /\ webhookDescription.restartWebhook = Bool(TRUE)
                      THEN rest
                      ELSE IF httpMethod = Undefined THEN rest
                      ELSE <<[httpMethod |-> httpMethod.s, node |-> node.name,
                              path |-> path,
                              webhookDescription |-> webhookDescription,
                              workflowId |-> workflowId,
                              webhookId |->
                                  IF (StartsWith(path, ":")
                                         \/ IncludesSlashColon(path))
                                     /\ ~Falsy(node.webhookId)
                                  THEN node.webhookId ELSE Undefined]>> \o rest

\* the loop of getNodeWebhooks over the webhook descriptors: the routes
\* pushed to returnData
RECURSIVE WebhookRoutes(_, _, _, _)
WebhookRoutes(workflow, node, ignoreRestartWehbooks, webhooks) ==
    IF webhooks = <<>> THEN <<>>
    ELSE LET webhookDescription == Head(webhooks)
             workflowId == WorkflowIdOf(workflow)
             resolved == getSimpleParameterValue(webhookDescription.path,
                                                 Undefined)
             rest == WebhookRoutes(workflow, node, ignoreRestartWehbooks,
                                   Tail(webhooks))
         IN  IF resolved = Undefined THEN rest
             ELSE LET nodeWebhookPath == TrimmedPath(resolved.s)
                      isFullPath ==
                          getSimpleParameterValue(webhookDescription.isFullPath,
                                                  Bool(FALSE))
                      restartWebhook ==
                          getSimpleParameterValue(
                              webhookDescription.restartWebhook, Bool(FALSE))
                      path == getNodeWebhookPath(workflowId, node,
                                  nodeWebhookPath, isFullPath, restartWebhook)
                      httpMethod ==
                          getSimpleParameterValue(webhookDescription.httpMethod,
                                                  Str(<<"G", "E", "T">>))
                  IN  IF ignoreRestartWehbooks
                         /\ webhookDescription.restartWebhook = Bool(TRUE)
                      THEN rest
                      ELSE IF httpMethod = Undefined THEN rest
                      ELSE <<[httpMethod |-> httpMethod.s, node |-> node.name,
                              path |-> path,
                              webhookDescription |-> webhookDescription,
                              workflowId |-> workflowId,
                              webhookId |->
                                  IF (StartsWith(path, ":")
                                         \/ IncludesSlashColon(path))
                                     /\ ~Falsy(node.webhookId)
                                  THEN node.webhookId ELSE Undefined]>> \o rest

\* webhooks is nodeType.description.webhooks of the node's type, Undefined
\* or an array
getNodeWebhooks(workflow, node, webhooks, ignoreRestartWehbooks) ==
    IF node.disabled = TRUE THEN <<>>
    ELSE IF webhooks = Undefined THEN <<>>
    ELSE WebhookRoutes(workflow, node, ignoreRestartWehbooks, webhooks.items)

\* the loop of getNodeWebhooksBasic over the webhook descriptors
RECURSIVE WebhookRoutesBasic(_, _, _)
WebhookRoutesBasic(workflow, node, webhooks) ==
    IF webhooks = <<>> THEN <<>>
    ELSE LET webhookDescription == Head(webhooks)
             workflowId == WorkflowIdOf(workflow)
             resolved == getSimpleParameterValue(webhookDescription.path,
                                                 Undefined)
             rest == WebhookRoutesBasic(workflow, node, Tail(webhooks))
         IN  IF resolved = Undefined THEN rest
             ELSE LET nodeWebhookPath == TrimmedPath(resolved.s)
                      isFullPath ==
                          getSimpleParameterValue(webhookDescription.isFullPath,
                                                  Bool(FALSE))
                      path == getNodeWebhookPath(workflowId, node,
                                  nodeWebhookPath, isFullPath, Undefined)
                      httpMethod ==
                          getSimpleParameterValue(webhookDescription.httpMethod,
                                                  Undefined)
                  IN  IF httpMethod = Undefined THEN rest
                      ELSE <<[httpMethod |-> httpMethod.s, node |-> node.name,
                              path |-> path,
                              webhookDescription |-> webhookDescription,
                              workflowId |-> workflowId]>> \o rest

getNodeWebhooksBasic(workflow, node, webhooks) ==
    IF node.disabled = TRUE THEN <<>>
    ELSE IF webhooks = Undefined THEN <<>>
    ELSE WebhookRoutesBasic(workflow, node, webhooks.items)

-----------------------------------------------------------------------------
(* Field schemas (INodeProperties) *)

Field(name, type, default, displayOptions) ==
    [name |-> name, type |-> type, default |-> default,
     displayOptions |-> displayOptions, multipleValues |-> FALSE,
     options |-> <<>>]

\* one entry of a show or hide rule: the key and the values it accepts
Entry(key, values) == [key |-> key, values |-> values]

\* strictly increasing index lists of length 0..max over 1..n
IncreasingLists(n, max) ==
    {l \in UNION {[1..k -> 1..n] : k \in 0..max} :
        \A j \in 1..(Len(l) - 1) : l[j] < l[j + 1]}

\* rules with between 1 and max distinct keys, each accepting the values vs
RulesOver(keys, vs, max) ==
    {[j \in 1..Len(l) |-> Entry(keys[l[j]], vs)] :
        l \in IncreasingLists(Len(keys), max) \ {<<>>}}

-----------------------------------------------------------------------------
(* Specification SpecOrder: getParamterResolveOrder on bounded field lists *)

OrderNames == {<<"a">>, <<"b">>}

\* dependency keys: the two field names, a name no field has, a root key
OrderKeys == << <<"a">>, <<"b">>, <<"z", "z">>, <<"/", "a">> >>

OrderAccepted == <<Str(<<"x">>)>>

OrderDisplayOptions ==
    {Undefined}
    \cup {[show |-> s] : s \in RulesOver(OrderKeys, OrderAccepted, MaxKeys)}
    \cup {[hide |-> h] : h \in RulesOver(OrderKeys, OrderAccepted, 1)}
    \cup {[show |-> s, hide |-> h] :
            s \in RulesOver(OrderKeys, OrderAccepted, 1),
            h \in RulesOver(OrderKeys, OrderAccepted, 1)}

OrderFields ==
    {Field(n, "string", Str(<<>>), d) : n \in OrderNames, d \in OrderDisplayOptions}

OrderSchemas == UNION {[1..k -> OrderFields] : k \in 0..MaxFields}

IdleCall == [status |-> "idle"]

NoRun == [executionData |-> Undefined]

InitOrder ==
    /\ nodePropertiesArray \in OrderSchemas
    /\ parameterDependencies = <<>>
    /\ resolveState = IdleCall
    /\ displayCall = IdleCall
    /\ runExecutionData = NoRun
    /\ heap = <<>>
    /\ contextCall = <<>>
    /\ paramsCall = IdleCall
    /\ issuesCall = IdleCall
    /\ mergeCall = IdleCall
    /\ webhooksCall = IdleCall

\* getParamterDependencies, then getParamterResolveOrder up to the first
\* evaluation of the while condition
ResolveOrderCall ==
    /\ resolveState.status = "idle"
    /\ parameterDependencies' = getParamterDependencies(nodePropertiesArray)
    /\ resolveState' = ResolveOrderStart(nodePropertiesArray)
    /\ UNCHANGED <<nodePropertiesArray, displayCall, runExecutionData, heap,
                   contextCall, paramsCall, issuesCall,
                   mergeCall, webhooksCall>>

\* one iteration of the while loop
ResolveOrderLoop ==
    /\ resolveState.status = "loop"
    /\ resolveState' =
           ResolveOrderIteration(nodePropertiesArray, parameterDependencies,
                                 resolveState)
    /\ UNCHANGED <<nodePropertiesArray, parameterDependencies, displayCall,
                   runExecutionData, heap, contextCall, paramsCall, issuesCall,
                   mergeCall, webhooksCall>>

NextOrder == ResolveOrderCall \/ ResolveOrderLoop

SpecOrder == InitOrder /\ [][NextOrder]_vars

-----------------------------------------------------------------------------
(* Properties of getParamterResolveOrder *)

Dependencies == parameterDependencies

\* the field names, once getParamterDependencies has run
FieldNames == DOMAIN parameterDependencies

\* the dependency keys of a field name that do not start with '/'
NonRootDependencies(name) ==
    {Dependencies[name][i] : i \in 1..Len(Dependencies[name])}
        \ {k \in {Dependencies[name][i] : i \in 1..Len(Dependencies[name])} :
              CharAt0(k) = "/"}

RECURSIVE ReachableNames(_)
ReachableNames(S) ==
    LET T == S \cup UNION {NonRootDependencies(n) : n \in S \cap FieldNames}
    IN  IF T = S THEN S ELSE ReachableNames(T)

\* no field depends, directly or through other fields, on itself
Acyclic ==
    \A n \in FieldNames : n \notin ReachableNames(NonRootDependencies(n))

\* every non-root dependency key names a field of the list
NoDanglingDependency ==
    \A n \in FieldNames : NonRootDependencies(n) \subseteq FieldNames

ResolveOrderFinished == resolveState.status \in {"return", "throw"}

NameAt(index) == nodePropertiesArray[index + 1].name

\* every occurrence of an index comes after an index of each field it
\* depends on
OrderRespectsDependencies ==
    LET order == resolveState.executionOrder
    IN  \A i \in 1..Len(order) :
            \A d \in NonRootDependencies(NameAt(order[i])) :
                \E j \in 1..(i - 1) : NameAt(order[j]) = d

\* C1: on an acyclic field list whose dependency keys name existing fields
\* or root keys, getParamterResolveOrder returns without error and every
\* index in the returned order is preceded by the indices of the fields it
\* depends on.
C1_OrderAfterDependencies ==
    (ResolveOrderFinished /\ Acyclic /\ NoDanglingDependency)
        => (resolveState.status = "return" /\ OrderRespectsDependencies)

\* two different fields whose display conditions each reference the other
TwoFieldCycle ==
    \E i, j \in 1..Len(nodePropertiesArray) :
        /\ nodePropertiesArray[i].name # nodePropertiesArray[j].name
        /\ nodePropertiesArray[j].name \in
               NonRootDependencies(nodePropertiesArray[i].name)
        /\ nodePropertiesArray[i].name \in
               NonRootDependencies(nodePropertiesArray[j].name)

\* C2: on a field list with two fields that depend on each other,
\* getParamterResolveOrder throws instead of returning an order.
C2_CycleThrows ==
    (ResolveOrderFinished /\ TwoFieldCycle) => resolveState.status = "throw"

\* the longest dependency list of a field
LongestDependencies ==
    LET lens == {Len(Dependencies[n]) : n \in FieldNames}
    IN  IF lens = {} THEN 0 ELSE CHOOSE m \in lens : \A l \in lens : l <= m

\* the head of the queue has an unresolved dependency, and each of its
\* unresolved dependencies starts with '/'
HeadWaitsOnRootOnly ==
    /\ resolveState.status = "loop"
    /\ LET ds == Dependencies[NameAt(Head(resolveState.indexToResolve))]
           unresolved == {i \in 1..Len(ds) :
                             ~Includes(resolveState.resolvedParamters, ds[i])}
       IN  /\ unresolved # {}
           /\ \A i \in unresolved : CharAt0(ds[i]) = "/"

\* C3: with a non-root dependency key that names no field the call never
\* returns an order and stops by throwing within a number of iterations
\* bounded by the field count times the dependency list length; an
\* iteration whose only unresolved dependencies start with '/' neither
\* requeues the field nor throws.
C3_DanglingThrowsRootResolved ==
    /\ [](~NoDanglingDependency =>
            /\ resolveState.status # "return"
            /\ resolveState.status # "idle" =>
                 resolveState.itterations
                     <= Len(nodePropertiesArray) * (LongestDependencies + 2) + 1)
    /\ [][HeadWaitsOnRootOnly =>
            /\ resolveState'.indexToResolve = Tail(resolveState.indexToResolve)
            /\ resolveState'.executionOrder =
                   Append(resolveState.executionOrder,
                          Head(resolveState.indexToResolve))
            /\ resolveState'.status # "throw"]_vars

\* a call on a list of two or more fields with a dangling dependency has
\* thrown, and a field waiting on a root key only has been appended
C3_Witness ==
    /\ Len(nodePropertiesArray) >= 2
    /\ ~NoDanglingDependency
    /\ resolveState.status = "throw"
    /\ \E n \in FieldNames :
           \E i \in 1..Len(Dependencies[n]) : CharAt0(Dependencies[n][i]) = "/"

\* C20: a returned order holds every field index 0..n-1 exactly once.
C20_OrderIsPermutation ==
    resolveState.status = "return" =>
        LET order == resolveState.executionOrder
            n == Len(nodePropertiesArray)
        IN  /\ Len(order) = n
            /\ \A index \in 0..(n - 1) : \E i \in 1..Len(order) : order[i] = index

-----------------------------------------------------------------------------
(* Specification SpecDisplay: displayParameter on bounded schemas and values *)

\* keys of display rules: two siblings and a root key
DisplayKeys == << <<"a">>, <<"b">>, <<"/", "a">> >>

DisplayAccepted == {<<Str(<<"x">>)>>, <<Str(<<"y">>), Bool(TRUE)>>}

\* lists of 1..max entries over distinct keys, in every order
DisplayRulesOver(max) ==
    {r \in UNION {[1..k -> {Entry(DisplayKeys[i], a) :
                               i \in 1..Len(DisplayKeys), a \in DisplayAccepted}] :
                     k \in 1..max} :
        \A i, j \in 1..Len(r) : i # j => r[i].key # r[j].key}

DisplayDisplayOptions ==
    {Undefined, <<>>}
    \cup {[show |-> s] : s \in DisplayRulesOver(MaxKeys)}
    \cup {[hide |-> h] : h \in DisplayRulesOver(1)}
    \cup {[show |-> s, hide |-> h] :
            s \in DisplayRulesOver(MaxKeys), h \in DisplayRulesOver(1)}

\* values of a node parameter: absent, strings, an expression, a boolean,
\* arrays
DisplayValues ==
    {Undefined, Str(<<"x">>), Str(<<"y">>), Str(<<"=", "x">>), Bool(TRUE),
     Arr(<<>>), Arr(<<Str(<<"y">>), Str(<<"x">>)>>),
     Arr(<<Str(<<"y">>), Str(<<"=", "x">>)>>)}

\* an object with the properties whose value is defined
ObjectOf(pairs) ==
    Obj([n \in {k \in DOMAIN pairs : pairs[k] # Undefined} |-> pairs[n]])

DisplayNodeValues ==
    {ObjectOf((<<"a">> :> va) @@ (<<"b">> :> vb)) :
        va \in DisplayValues, vb \in DisplayValues}

DisplayRoots ==
    {Undefined} \cup {ObjectOf(<<"a">> :> va) : va \in DisplayValues}

InitDisplay ==
    /\ nodePropertiesArray = <<>>
    /\ parameterDependencies = <<>>
    /\ resolveState = IdleCall
    /\ displayCall \in
           [status : {"idle"},
            nodeValues : DisplayNodeValues,
            parameter : {Field(<<"p">>, "string", Str(<<>>), d) :
                            d \in DisplayDisplayOptions},
            nodeValuesRoot : DisplayRoots]
    /\ runExecutionData = NoRun
    /\ heap = <<>>
    /\ contextCall = <<>>
    /\ paramsCall = IdleCall
    /\ issuesCall = IdleCall
    /\ mergeCall = IdleCall
    /\ webhooksCall = IdleCall

DisplayParameterCall ==
    /\ displayCall.status = "idle"
    /\ displayCall' =
           [status |-> "returned",
            nodeValues |-> displayCall.nodeValues,
            parameter |-> displayCall.parameter,
            nodeValuesRoot |-> displayCall.nodeValuesRoot,
            result |-> displayParameter(displayCall.nodeValues,
                                        displayCall.parameter,
                                        displayCall.nodeValuesRoot)]
    /\ UNCHANGED <<nodePropertiesArray, parameterDependencies, resolveState,
                   runExecutionData, heap, contextCall, paramsCall, issuesCall,
                   mergeCall, webhooksCall>>

NextDisplay == DisplayParameterCall

SpecDisplay == InitDisplay /\ [][NextDisplay]_vars

-----------------------------------------------------------------------------
(* Properties of displayParameter *)

DisplayOptionsOfCall == displayCall.parameter.displayOptions

RuleOfCall(rule) ==
    IF DisplayOptionsOfCall # Undefined /\ rule \in DOMAIN DisplayOptionsOfCall
    THEN DisplayOptionsOfCall[rule] ELSE <<>>

\* the value a key of the call refers to: '/'-keys read the root values (the
\* node values when no root is passed), the others the node values
ValueOfKey(key) ==
    LET root == IF displayCall.nodeValuesRoot = Undefined
                THEN displayCall.nodeValues ELSE displayCall.nodeValuesRoot
    IN  IF key[1] = "/"
        THEN Prop(root, SubSeq(key, 2, Len(key)))
        ELSE Prop(displayCall.nodeValues, key)

\* the set of values in the resolved list of a key
ResolvedSet(key) ==
    LET v == ValueOfKey(key)
    IN  IF v.t = "array" THEN {v.items[i] : i \in 1..Len(v.items)} ELSE {v}

\* a key of the call refers to a string that starts with '='
RefersToExpression(key) ==
    \E v \in ResolvedSet(key) : v.t = "string" /\ Len(v.s) > 0 /\ v.s[1] = "="

SetOf(list) == {list[i] : i \in 1..Len(list)}

\* C4: displayParameter returns true whenever a value referenced by a key of
\* the show rule is a string starting with '=', whatever the other keys do.
C4_ExpressionAlwaysVisible ==
    (/\ displayCall.status = "returned"
     /\ \E i \in 1..Len(RuleOfCall("show")) :
            RefersToExpression(RuleOfCall("show")[i].key))
        => displayCall.result = TRUE

\* C5: when no referenced value starts with '=', displayParameter returns
\* true exactly when the field has no display condition, or every show key
\* has a non-empty resolved list that meets its accepted values and no hide
\* key has a resolved list that meets its hide values.
C5_ShowAllAndNoHide ==
    (/\ displayCall.status = "returned"
     /\ \A rule \in {"show", "hide"} : \A i \in 1..Len(RuleOfCall(rule)) :
            ~RefersToExpression(RuleOfCall(rule)[i].key))
        => (displayCall.result = TRUE <=>
              \/ DisplayOptionsOfCall = Undefined
              \/ /\ \A i \in 1..Len(RuleOfCall("show")) :
                        ResolvedSet(RuleOfCall("show")[i].key)
                            \cap SetOf(RuleOfCall("show")[i].values) # {}
                 /\ \A i \in 1..Len(RuleOfCall("hide")) :
                        ResolvedSet(RuleOfCall("hide")[i].key)
                            \cap SetOf(RuleOfCall("hide")[i].values) = {})

\* a call with two show keys and a hide key, one show key reading an empty
\* list from the root values, has returned false
C5_Witness ==
    /\ displayCall.status = "returned"
    /\ displayCall.result = FALSE
    /\ Len(RuleOfCall("show")) = 2
    /\ Len(RuleOfCall("hide")) = 1
    /\ displayCall.nodeValuesRoot # Undefined
    /\ \E i \in 1..2 : /\ RuleOfCall("show")[i].key[1] = "/"
                       /\ ResolvedSet(RuleOfCall("show")[i].key) = {}
    /\ \A rule \in {"show", "hide"} : \A i \in 1..Len(RuleOfCall(rule)) :
            ~RefersToExpression(RuleOfCall(rule)[i].key)

-----------------------------------------------------------------------------
(* Specification SpecContext: getContext calls and writes by executing     *)
(* nodes on one run                                                        *)

\* the nodes that execute on the run
Nodes == {[name |-> <<"n", "1">>], [name |-> <<"n", "2">>]}

Executors == {n.name : n \in Nodes}

ContextTypes == {FlowType, NodeType, <<"t", "a", "s", "k">>}

DataKeys == {<<"k">>, <<"j">>}

DataValues == {Num(1)}

InitContext ==
    /\ nodePropertiesArray = <<>>
    /\ parameterDependencies = <<>>
    /\ resolveState = IdleCall
    /\ displayCall = IdleCall
    /\ runExecutionData \in {NoRun, [executionData |-> [contextData |-> <<>>]]}
    /\ heap = <<>>
    /\ contextCall = [e \in Executors |-> IdleCall]
    /\ paramsCall = IdleCall
    /\ issuesCall = IdleCall
    /\ mergeCall = IdleCall
    /\ webhooksCall = IdleCall

\* executor e calls getContext(runExecutionData, type, node)
GetContext(e, type, node) ==
    LET call == getContext(runExecutionData, heap, type, node)
    IN  /\ runExecutionData' = call.run
        /\ heap' = call.heap
        /\ contextCall' = [contextCall EXCEPT ![e] =
               IF call.status = "thrown"
               THEN [status |-> "thrown", type |-> type, node |-> node,
                     error |-> call.error]
               ELSE [status |-> "returned", type |-> type, node |-> node,
                     key |-> call.key, context |-> call.context]]
        /\ UNCHANGED <<nodePropertiesArray, parameterDependencies, resolveState,
                       displayCall, paramsCall, issuesCall,
                   mergeCall, webhooksCall>>

\* executor e assigns a property of the context object it got back
WriteContext(e, dataKey, value) ==
    /\ contextCall[e].status = "returned"
    /\ heap' = [heap EXCEPT ![contextCall[e].context] =
                   (dataKey :> value) @@ [k \in (DOMAIN @) \ {dataKey} |-> @[k]]]
    /\ UNCHANGED <<nodePropertiesArray, parameterDependencies, resolveState,
                   displayCall, runExecutionData, contextCall, paramsCall, issuesCall,
                   mergeCall, webhooksCall>>

NextContext ==
    \/ \E e \in Executors, type \in ContextTypes, node \in Nodes \cup {Undefined} :
           GetContext(e, type, node)
    \/ \E e \in Executors, dataKey \in DataKeys, value \in DataValues :
           WriteContext(e, dataKey, value)

SpecContext == InitContext /\ [][NextContext]_vars

-----------------------------------------------------------------------------
(* Properties of getContext *)

Initialized == runExecutionData.executionData # Undefined

ContextData ==
    IF Initialized THEN runExecutionData.executionData.contextData ELSE <<>>

\* C6: the entry of a key is created once, empty, by the first getContext
\* call for the key and is never replaced; every context returned for a key
\* is the key's one object, which keeps all data written to it; a getContext
\* call changes no existing object.
C6_ContextCreatedOnce ==
    /\ [](/\ Len(heap) = Cardinality(DOMAIN ContextData)
          /\ \A k1, k2 \in DOMAIN ContextData :
                 ContextData[k1] = ContextData[k2] => k1 = k2
          /\ \A e \in Executors :
                 contextCall[e].status = "returned" =>
                     /\ contextCall[e].key \in DOMAIN ContextData
                     /\ contextCall[e].context = ContextData[contextCall[e].key])
    /\ [][/\ \A k \in DOMAIN ContextData :
                 /\ k \in DOMAIN ContextData'
                 /\ ContextData'[k] = ContextData[k]
          /\ \A k \in (DOMAIN ContextData') \ DOMAIN ContextData :
                 /\ heap'[ContextData'[k]] = <<>>
                 /\ \E e \in Executors :
                        /\ contextCall'[e].status = "returned"
                        /\ contextCall'[e].key = k
          /\ \A id \in 1..Len(heap) :
                 /\ DOMAIN heap[id] \subseteq DOMAIN heap'[id]
                 /\ contextCall' # contextCall => heap'[id] = heap[id]]_vars

\* both executors hold the context of one key, which has both data keys
\* written, and the contexts of the two other keys exist
C6_Witness ==
    /\ Cardinality(DOMAIN ContextData) = 3
    /\ \A e \in Executors :
           /\ contextCall[e].status = "returned"
           /\ contextCall[e].key = NodeKey([name |-> <<"n", "1">>])
           /\ DOMAIN heap[contextCall[e].context] = DataKeys

\* the arguments of the call for which getContext throws
MustThrow(call) ==
    \/ ~Initialized
    \/ (call.type = NodeType /\ call.node = Undefined)
    \/ call.type \notin {FlowType, NodeType}

\* C7: getContext throws exactly when executionData is undefined, or the
\* type is 'node' and no node is passed, or the type is neither 'flow' nor
\* 'node'; a call that throws leaves the context store as it was.
C7_ContextErrors ==
    /\ [](\A e \in Executors :
              contextCall[e].status # "idle" =>
                  (contextCall[e].status = "thrown" <=> MustThrow(contextCall[e])))
    /\ [][(\E e \in Executors :
               /\ contextCall'[e] # contextCall[e]
               /\ contextCall'[e].status = "thrown")
            => (runExecutionData' = runExecutionData /\ heap' = heap)]_vars

\* on an initialized run with a context that holds data, one executor's call
\* has thrown for a missing node and the other's for an unknown type
C7_Witness ==
    /\ Initialized
    /\ \E id \in 1..Len(heap) : heap[id] # <<>>
    /\ \E e1, e2 \in Executors :
           /\ contextCall[e1].status = "thrown"
           /\ contextCall[e1].type = NodeType
           /\ contextCall[e2].status = "thrown"
           /\ contextCall[e2].type \notin {FlowType, NodeType}

-----------------------------------------------------------------------------
(* Specification SpecParams: getNodeParameters on bounded schemas and      *)
(* user values, its output resolved again, and the result without defaults *)
(* put back over the user values and resolved again                        *)

Composite(name, type, default, multipleValues, options) ==
    [name |-> name, type |-> type, default |-> default,
     displayOptions |-> Undefined, multipleValues |-> multipleValues,
     options |-> options]

\* lists without repetition of at most max fields of a catalog
ListsOver(catalog, max) ==
    {l \in UNION {[1..k -> catalog] : k \in 0..max} :
        \A i, j \in 1..Len(l) : i # j => l[i] # l[j]}

\* A selector and two pairs of same-named fields that exclude each other:
\* m is "p" unless a is "1" and "q" when a is "1"; x depends on m.
AlternativesCatalog ==
    {Field(<<"a">>, "options", Str(<<"1">>), Undefined),
     Field(<<"m">>, "string", Str(<<"p">>),
           [hide |-> <<Entry(<<"a">>, <<Str(<<"1">>)>>)>>]),
     Field(<<"m">>, "string", Str(<<"q">>),
           [show |-> <<Entry(<<"a">>, <<Str(<<"1">>)>>)>>]),
     Field(<<"x">>, "string", Str(<<"s">>),
           [show |-> <<Entry(<<"m">>, <<Str(<<"p">>)>>)>>]),
     Field(<<"x">>, "string", Str(<<"t">>),
           [show |-> <<Entry(<<"m">>, <<Str(<<"r">>)>>)>>])}

\* One field of each simple type; n is shown when b is false.
ScalarsCatalog ==
    {Field(<<"b">>, "boolean", Bool(TRUE), Undefined),
     Field(<<"n">>, "number", Num(5),
           [show |-> <<Entry(<<"b">>, <<Bool(FALSE)>>)>>]),
     Field(<<"o">>, "options", Str(<<"1">>), Undefined),
     Field(<<"s">>, "string", Str(<<"d">>), Undefined)}

\* the fields of the alternatives and of the collection: y is shown when x
\* is "z", w is a number
ValuesOne ==
    <<Field(<<"x">>, "string", Str(<<"d">>), Undefined),
      Field(<<"y">>, "string", Str(<<"e">>),
            [show |-> <<Entry(<<"x">>, <<Str(<<"z">>)>>)>>])>>

ValuesTwo == <<Field(<<"w">>, "number", Num(5), Undefined)>>

OptionOne == [name |-> <<"o", "1">>, values |-> ValuesOne]

OptionTwo == [name |-> <<"o", "2">>, values |-> ValuesTwo]

\* a fixedCollection of single objects (f), one with a default alternative
\* (h), one of lists (g), one of lists with a default alternative (j), a
\* collection (c) and a collection of lists (k)
ContainersCatalog ==
    {Composite(<<"f">>, "fixedCollection", EmptyObject, FALSE,
               <<OptionOne, OptionTwo>>),
     Composite(<<"h">>, "fixedCollection",
               Obj(<<"o", "1">> :> Obj(<<"x">> :> Str(<<"z">>))), FALSE,
               <<OptionOne>>),
     Composite(<<"g">>, "fixedCollection", EmptyObject, TRUE,
               <<OptionOne, OptionTwo>>),
     Composite(<<"j">>, "fixedCollection",
               Obj(<<"o", "1">> :> Arr(<<Obj(<<"x">> :> Str(<<"z">>))>>)), TRUE,
               <<OptionOne>>),
     Composite(<<"c">>, "collection", EmptyObject, FALSE, ValuesOne),
     Composite(<<"k">>, "collection", Arr(<<>>), TRUE, ValuesOne)}

ParamSchemas ==
    ListsOver(AlternativesCatalog, MaxAlternatives)
    \cup ListsOver(ScalarsCatalog, MaxScalars)
    \cup ListsOver(ContainersCatalog, MaxContainers)

ItemD == Obj(<<"x">> :> Str(<<"d">>))
ItemZ == Obj((<<"x">> :> Str(<<"z">>)) @@ (<<"y">> :> Str(<<"u">>)))
ItemW == Obj(<<"w">> :> Num(0))

\* the values a user may have stored under a field name (Undefined: none)
UserValues(name) ==
    CASE name = <<"a">> -> {Undefined, Str(<<"1">>), Str(<<"2">>)}
      [] name = <<"m">> -> {Undefined, Str(<<>>), Str(<<"r">>)}
      [] name = <<"x">> -> {Undefined, Str(<<"u">>)}
      [] name = <<"b">> -> {Undefined, Bool(FALSE), Bool(TRUE)}
      [] name = <<"n">> -> {Undefined, Num(0), Num(7)}
      [] name = <<"o">> -> {Undefined, Str(<<>>), Str(<<"2">>)}
      [] name = <<"s">> -> {Undefined, Str(<<>>), Str(<<"z">>)}
      [] name \in {<<"f">>, <<"h">>} ->
             {Undefined,
              Obj(<<"o", "1">> :> ItemD),
              Obj(<<"o", "1">> :> ItemZ),
              Obj((<<"o", "1">> :> ItemD) @@ (<<"o", "2">> :> ItemW)),
              Obj(<<"o", "9">> :> ItemD)}
      [] name = <<"g">> ->
             {Undefined,
              Obj(<<"o", "1">> :> Arr(<<>>)),
              Obj(<<"o", "1">> :> Arr(<<ItemD, ItemZ>>)),
              Obj((<<"o", "1">> :> Arr(<<ItemD>>))
                  @@ (<<"o", "2">> :> Arr(<<ItemW>>))),
              Obj(<<"o", "9">> :> Arr(<<>>)),
              Obj(<<"o", "9">> :> Arr(<<ItemD>>))}
      [] name = <<"j">> -> {Undefined, Obj(<<"o", "1">> :> Arr(<<ItemD>>))}
      [] name = <<"c">> -> {Undefined, EmptyObject, ItemD, ItemZ}
      [] name = <<"k">> -> {Undefined, Arr(<<ItemZ>>)}

\* the user value trees over the field names of a schema
NodeValuesFor(props) ==
    LET names == {props[i].name : i \in 1..Len(props)}
    IN  {ObjectOf(pairs) :
            pairs \in {f \in [names -> UNION {UserValues(n) : n \in names}] :
                          \A n \in names : f[n] \in UserValues(n)}}

NotCalled == [status |-> "idle"]

InitParams ==
    /\ nodePropertiesArray \in ParamSchemas
    /\ parameterDependencies = <<>>
    /\ resolveState = IdleCall
    /\ displayCall = IdleCall
    /\ runExecutionData = NoRun
    /\ heap = <<>>
    /\ contextCall = <<>>
    /\ paramsCall \in
           [nodeValues : NodeValuesFor(nodePropertiesArray),
            returnNoneDisplayed : BOOLEAN,
            full : {NotCalled}, again : {NotCalled}, minimal : {NotCalled},
            merged : {NotCalled}, remerged : {NotCalled}]
    /\ issuesCall = IdleCall
    /\ mergeCall = IdleCall
    /\ webhooksCall = IdleCall

Resolve(nodeValues, returnDefaults) ==
    getNodeParameters(nodePropertiesArray, nodeValues, returnDefaults,
                      paramsCall.returnNoneDisplayed, FALSE, FALSE,
                      Undefined, NoParentType)

ParamsUnchanged ==
    UNCHANGED <<nodePropertiesArray, parameterDependencies, resolveState,
                displayCall, runExecutionData, heap, contextCall, issuesCall,
                mergeCall, webhooksCall>>

\* getNodeParameters(S, V, returnDefaults = true, returnNoneDisplayed)
ResolveDefaults ==
    /\ paramsCall.full = NotCalled
    /\ paramsCall' = [paramsCall EXCEPT !.full = Resolve(paramsCall.nodeValues, TRUE)]
    /\ ParamsUnchanged

\* getNodeParameters on the tree the first call returned
ResolveOwnOutput ==
    /\ paramsCall.full.status = "return"
    /\ paramsCall.again = NotCalled
    /\ paramsCall' = [paramsCall EXCEPT !.again = Resolve(paramsCall.full.value, TRUE)]
    /\ ParamsUnchanged

\* getNodeParameters(S, V, returnDefaults = false, returnNoneDisplayed)
ResolveWithoutDefaults ==
    /\ paramsCall.full # NotCalled
    /\ paramsCall.full.status = "return" => paramsCall.again # NotCalled
    /\ paramsCall.minimal = NotCalled
    /\ paramsCall' = [paramsCall EXCEPT !.minimal = Resolve(paramsCall.nodeValues, FALSE)]
    /\ ParamsUnchanged

\* Object.assign({}, v, m): the properties of m replace those of v
ObjectAssign(v, m) ==
    Obj([k \in (DOMAIN v.props) \cup (DOMAIN m.props) |->
            IF k \in DOMAIN m.props THEN m.props[k] ELSE v.props[k]])

\* lodash merge(v, m): objects are merged property by property and arrays
\* index by index, any other value of m replaces the value of v
RECURSIVE DeepMerge(_, _)
DeepMerge(v, m) ==
    IF v.t = "object" /\ m.t = "object"
    THEN Obj([k \in (DOMAIN v.props) \cup (DOMAIN m.props) |->
                 IF k \notin DOMAIN m.props THEN v.props[k]
                 ELSE IF k \notin DOMAIN v.props THEN m.props[k]
                 ELSE DeepMerge(v.props[k], m.props[k])])
    ELSE IF v.t = "array" /\ m.t = "array"
    THEN Arr([i \in 1..(IF Len(v.items) > Len(m.items)
                        THEN Len(v.items) ELSE Len(m.items)) |->
                 IF i > Len(m.items) THEN v.items[i]
                 ELSE IF i > Len(v.items) THEN m.items[i]
                 ELSE DeepMerge(v.items[i], m.items[i])])
    ELSE m

\* the caller puts the result without defaults back over the user values,
\* either with Object.assign or with a deep merge
MergeBack ==
    /\ paramsCall.minimal.status = "return"
    /\ paramsCall.merged = NotCalled
    /\ \E mode \in {"assign", "merge"} :
           paramsCall' = [paramsCall EXCEPT !.merged =
               [status |-> "done", mode |-> mode,
                value |-> IF mode = "assign"
                          THEN ObjectAssign(paramsCall.nodeValues,
                                            paramsCall.minimal.value)
                          ELSE DeepMerge(paramsCall.nodeValues,
                                         paramsCall.minimal.value)]]
    /\ ParamsUnchanged

\* getNodeParameters(S, V', returnDefaults = true, returnNoneDisplayed)
ResolveMerged ==
    /\ paramsCall.merged # NotCalled
    /\ paramsCall.remerged = NotCalled
    /\ paramsCall' = [paramsCall EXCEPT !.remerged =
                         Resolve(paramsCall.merged.value, TRUE)]
    /\ ParamsUnchanged

NextParams ==
    \/ ResolveDefaults
    \/ ResolveOwnOutput
    \/ ResolveWithoutDefaults
    \/ MergeBack
    \/ ResolveMerged

SpecParams == InitParams /\ [][NextParams]_vars

-----------------------------------------------------------------------------
(* Properties of getNodeParameters *)

\* C8: when getNodeParameters with returnDefaults and returnNoneDisplayed
\* returns a tree, resolving that tree again with the same flags returns an
\* equal tree.
C8_ResolveIdempotent ==
    (paramsCall.returnNoneDisplayed /\ paramsCall.again # NotCalled)
        => paramsCall.again = paramsCall.full

HasFixedCollection ==
    \E i \in 1..Len(nodePropertiesArray) :
        nodePropertiesArray[i].type = "fixedCollection"

\* C9 as stated: for a schema with FixedCollection fields, the user values
\* overlaid with the result without defaults (the properties of the result
\* replace those of the user values) resolve, with defaults, to the tree the
\* user values resolve to.
C9_RoundTripOverlay ==
    (/\ HasFixedCollection
     /\ paramsCall.remerged # NotCalled
     /\ paramsCall.merged.mode = "assign")
        => paramsCall.remerged = paramsCall.full

\* C9 amended: for a schema with FixedCollection fields, the result without
\* defaults merged deeply into the user values (objects property by
\* property, arrays index by index) resolves, with defaults, to the outcome
\* the user values resolve to.
C9_RoundTripDeepMerge ==
    (/\ HasFixedCollection
     /\ paramsCall.remerged # NotCalled
     /\ paramsCall.merged.mode = "merge")
        => paramsCall.remerged = paramsCall.full

\* a fixedCollection of lists whose items lost values equal to the default
\* in the result without defaults has been merged deeply and resolved again
C9_Witness ==
    /\ paramsCall.remerged # NotCalled
    /\ paramsCall.merged.mode = "merge"
    /\ paramsCall.remerged.status = "return"
    /\ \E i \in 1..Len(nodePropertiesArray) :
           /\ nodePropertiesArray[i].type = "fixedCollection"
           /\ nodePropertiesArray[i].multipleValues
           /\ LET name == nodePropertiesArray[i].name
              IN  /\ name \in DOMAIN paramsCall.minimal.value.props
                  /\ paramsCall.minimal.value.props[name]
                         # paramsCall.nodeValues.props[name]
                  /\ paramsCall.remerged.value.props[name]
                         # paramsCall.minimal.value.props[name]

\* C10: with returnDefaults, a field of type boolean, number or options that
\* is in the result has the user's value whenever that is defined, false and
\* 0 included, and the field's default when it is not.
C10_FalsyValuesKept ==
    paramsCall.full.status = "return" =>
        \A i \in 1..Len(nodePropertiesArray) :
            LET p == nodePropertiesArray[i]
                v == Prop(paramsCall.nodeValues, p.name)
            IN  (/\ p.type \in {"boolean", "number", "options"}
                 /\ p.name \in DOMAIN paramsCall.full.value.props)
                    => paramsCall.full.value.props[p.name] =
                           IF v # Undefined THEN v ELSE p.default

\* the user's false and 0 are in the result and a missing options value has
\* been replaced by the default
C10_Witness ==
    /\ paramsCall.full.status = "return"
    /\ Prop(paramsCall.nodeValues, <<"b">>) = Bool(FALSE)
    /\ Prop(paramsCall.nodeValues, <<"n">>) = Num(0)
    /\ Prop(paramsCall.nodeValues, <<"o">>) = Undefined
    /\ Prop(paramsCall.full.value, <<"b">>) = Bool(FALSE)
    /\ Prop(paramsCall.full.value, <<"n">>) = Num(0)
    /\ Prop(paramsCall.full.value, <<"o">>) = Str(<<"1">>)

\* the value a fixedCollection field is resolved from: the user's, or the
\* default when defaults are returned and the user has none
PropertyValuesOf(p, nodeValues, returnDefaults) ==
    IF Prop(nodeValues, p.name) = Undefined /\ returnDefaults
    THEN p.default
    ELSE Prop(nodeValues, p.name)

\* a fixedCollection field of the schema is resolved from a value with an
\* alternative name that is not among the field's options
UnknownAlternative(nodeValues, returnDefaults) ==
    \E i \in 1..Len(nodePropertiesArray) :
        LET p == nodePropertiesArray[i]
            propertyValues == PropertyValuesOf(p, nodeValues, returnDefaults)
        IN  /\ p.type = "fixedCollection"
            /\ propertyValues.t = "object"
            /\ \E itemName \in DOMAIN propertyValues.props :
                   FindOption(p.options, itemName) = 0

\* C11: a call that resolves a fixedCollection field from a value with an
\* alternative name that is not among the field's options throws, with and
\* without defaults, for lists and single objects, whatever the alternative
\* holds.
C11_UnknownAlternativeThrows ==
    /\ (paramsCall.full # NotCalled /\ UnknownAlternative(paramsCall.nodeValues, TRUE))
           => paramsCall.full.status = "throw"
    /\ (paramsCall.minimal # NotCalled /\ UnknownAlternative(paramsCall.nodeValues, FALSE))
           => paramsCall.minimal.status = "throw"

\* the fixedCollection fields without a user value whose default names
\* alternatives
DefaultedFixedCollections ==
    {i \in 1..Len(nodePropertiesArray) :
        /\ nodePropertiesArray[i].type = "fixedCollection"
        /\ Prop(paramsCall.nodeValues, nodePropertiesArray[i].name) = Undefined
        /\ nodePropertiesArray[i].default.t = "object"
        /\ DOMAIN nodePropertiesArray[i].default.props # {}}

\* C19: with returnDefaults, when the user has no value for a fixedCollection
\* field whose default names alternatives (and no value names an unknown
\* alternative), the call returns and the result holds each alternative of
\* the default, for single objects and lists alike.
C19_DefaultAlternativesResolved ==
    (/\ paramsCall.full # NotCalled
     /\ DefaultedFixedCollections # {}
     /\ ~UnknownAlternative(paramsCall.nodeValues, TRUE))
        => /\ paramsCall.full.status = "return"
           /\ \A i \in DefaultedFixedCollections :
                  LET p == nodePropertiesArray[i]
                  IN  DOMAIN p.default.props \subseteq
                          DOMAIN Prop(paramsCall.full.value, p.name).props

\* every field of a result resolved with returnNoneDisplayed = false is a
\* field of the level's schema that displayParameter shows on the level's
\* baseline, and so are the fields below it; a collection with
\* multipleValues is passed through and has no resolved fields below it
RECURSIVE EmittedAreVisible(_, _, _, _, _, _)
EmittedAreVisible(props, nodeValues, returnDefaults, result, root, parentType) ==
    LET baseline == getNodeParameters(props, nodeValues, TRUE, TRUE, TRUE, TRUE,
                                      root, parentType).value
        nodeValuesRoot == IF root # Undefined THEN root ELSE baseline
    IN  \A name \in DOMAIN result.props :
            \E i \in 1..Len(props) :
                LET p == props[i]
                    propertyValues == PropertyValuesOf(p, nodeValues, returnDefaults)
                    below == result.props[name]
                IN  /\ p.name = name
                    /\ displayParameter(baseline, p, nodeValuesRoot)
                    /\ (p.type = "collection" /\ ~p.multipleValues
                            /\ Prop(nodeValues, name) # Undefined)
                           => EmittedAreVisible(p.options, Prop(nodeValues, name),
                                                returnDefaults, below,
                                                nodeValuesRoot, p.type)
                    /\ p.type = "fixedCollection"
                           => \A itemName \in DOMAIN below.props :
                                  LET values ==
                                          p.options[FindOption(p.options, itemName)].values
                                  IN  IF p.multipleValues
                                      THEN \A k \in 1..Len(below.props[itemName].items) :
                                               EmittedAreVisible(values,
                                                   propertyValues.props[itemName].items[k],
                                                   returnDefaults,
                                                   below.props[itemName].items[k],
                                                   nodeValuesRoot, p.type)
                                      ELSE EmittedAreVisible(values,
                                               propertyValues.props[itemName],
                                               returnDefaults,
                                               below.props[itemName],
                                               nodeValuesRoot, p.type)

\* C12: a call with returnNoneDisplayed = false (and dataIsResolved not
\* set) returns, at every resolved level, only fields that displayParameter
\* shows on the baseline of that level, the tree resolved from the same
\* schema and values with returnDefaults, returnNoneDisplayed and
\* onlySimpleTypes; with and without defaults.
C12_EmittedVisiblePerBaseline ==
    ~paramsCall.returnNoneDisplayed =>
        /\ paramsCall.full.status = "return"
               => EmittedAreVisible(nodePropertiesArray, paramsCall.nodeValues, TRUE,
                                    paramsCall.full.value, Undefined, NoParentType)
        /\ paramsCall.minimal.status = "return"
               => EmittedAreVisible(nodePropertiesArray, paramsCall.nodeValues, FALSE,
                                    paramsCall.minimal.value, Undefined, NoParentType)

\* the calls without hidden fields, with and without defaults, have left
\* out a field the user set that the baseline hides
C12_Witness ==
    /\ ~paramsCall.returnNoneDisplayed
    /\ paramsCall.full.status = "return"
    /\ paramsCall.minimal.status = "return"
    /\ Prop(paramsCall.nodeValues, <<"n">>) = Num(7)
    /\ <<"b">> \in DOMAIN paramsCall.full.value.props
    /\ <<"n">> \notin DOMAIN paramsCall.full.value.props
    /\ <<"n">> \notin DOMAIN paramsCall.minimal.value.props

-----------------------------------------------------------------------------
(* Specification SpecIssues: getParameterIssues on required string fields *)
(* at a path, and on fixedCollection fields with nested alternatives      *)

MaxItems == 2

IssueField(name, displayName, type, required, displayOptions, multipleValues, options) ==
    [name |-> name, displayName |-> displayName, type |-> type,
     required |-> required, displayOptions |-> displayOptions,
     multipleValues |-> multipleValues, options |-> options]

\* string fields s: required or not, always visible or shown when the
\* sibling a is "1", without and with the multipleValues type option
StringFields ==
    {IssueField(<<"s">>, <<"S">>, "string", required, displayOptions,
                multipleValues, Undefined) :
        required \in BOOLEAN,
        displayOptions \in {Undefined,
                            [show |-> <<Entry(<<"a">>, <<Str(<<"1">>)>>)>>]},
        multipleValues \in {Undefined, Bool(TRUE), Bool(FALSE)}}

\* the values of one level: s is absent, empty or set, a is absent, "1" or "2"
LevelValues ==
    {ObjectOf(pairs) :
        pairs \in [{<<"s">>, <<"a">>} ->
                      {Undefined, Str(<<>>), Str(<<"v">>), Str(<<"1">>),
                       Str(<<"2">>)}]}

\* the paths of a level and the tree that holds the level there
IssuePaths ==
    {<<>>, <<"f", ".", "o", "1">>, <<"g", ".", "o", "1", "[", "0", "]">>,
     <<"g", ".", "o", "1", "[", "1", "]">>}

TreeAround(path, level) ==
    CASE path = <<>> -> level
      [] path = <<"f", ".", "o", "1">> ->
             Obj(<<"f">> :> Obj(<<"o", "1">> :> level))
      [] path = <<"g", ".", "o", "1", "[", "0", "]">> ->
             Obj(<<"g">> :> Obj(<<"o", "1">> :> Arr(<<level>>)))
      [] path = <<"g", ".", "o", "1", "[", "1", "]">> ->
             Obj(<<"g">> :> Obj(<<"o", "1">> :> Arr(<<EmptyObject, level>>)))

RequiredString(name, displayName) ==
    IssueField(name, displayName, "string", TRUE, Undefined, Undefined, Undefined)

\* a fixedCollection i inside an alternative: its alternative p has the
\* required string r
InnerFixedCollection(multipleValues) ==
    IssueField(<<"i">>, <<"I">>, "fixedCollection", FALSE, Undefined,
               multipleValues,
               Arr(<<[name |-> <<"p">>,
                      values |-> <<RequiredString(<<"r">>, <<"R">>)>>]>>))

\* the alternatives of the outer fixedCollection: o1 has the required
\* string x and the inner fixedCollection, o2 has the required string w
OuterOptions(innerMultipleValues) ==
    Arr(<<[name |-> <<"o", "1">>,
           values |-> <<RequiredString(<<"x">>, <<"X">>),
                        InnerFixedCollection(innerMultipleValues)>>],
          [name |-> <<"o", "2">>,
           values |-> <<RequiredString(<<"w">>, <<"W">>)>>]>>)

FixedCollectionFields ==
    {IssueField(<<"f">>, <<"F">>, "fixedCollection", FALSE, Undefined,
                multipleValues, OuterOptions(innerMultipleValues)) :
        multipleValues \in {Undefined, Bool(TRUE)},
        innerMultipleValues \in {Undefined, Bool(TRUE)}}

\* what the user may have stored for the inner alternative p
InnerValues(multipleValues) ==
    LET items == {EmptyObject, Obj(<<"r">> :> Str(<<"v">>))}
    IN  IF multipleValues = Undefined THEN items
        ELSE {Arr(l) : l \in UNION {[1..k -> items] : k \in 0..MaxItems}}

\* what the user may have stored for the alternative o1
OuterItems(innerMultipleValues) ==
    {Obj(<<"x">> :> Str(<<"v">>)), Obj(<<"x">> :> Str(<<>>)), EmptyObject}
    \cup {Obj((<<"x">> :> Str(<<"v">>)) @@ (<<"i">> :> Obj(<<"p">> :> inner))) :
             inner \in InnerValues(innerMultipleValues)}

\* the user values of a fixedCollection field f: none, or one or both of
\* the alternatives
FixedCollectionValues(p) ==
    LET inner == p.options.items[1].values[2].multipleValues
        one == IF p.multipleValues = Undefined THEN OuterItems(inner)
               ELSE {Arr(l) : l \in UNION {[1..k -> OuterItems(inner)] :
                                              k \in 0..MaxItems}}
        two == IF p.multipleValues = Undefined THEN {EmptyObject}
               ELSE {Arr(<<EmptyObject>>)}
    IN  {EmptyObject}
        \cup {Obj(<<"f">> :> Obj(<<"o", "1">> :> v)) : v \in one}
        \cup {Obj(<<"f">> :> Obj(<<"o", "2">> :> v)) : v \in two}
        \cup {Obj(<<"f">> :> Obj((<<"o", "1">> :> v) @@ (<<"o", "2">> :> w))) :
                 v \in one, w \in two}

IssueCalls ==
    {[status |-> "idle", nodeProperties |-> p, level |-> level,
      nodeValues |-> TreeAround(path, level), path |-> path] :
        p \in StringFields, level \in LevelValues, path \in IssuePaths}
    \cup UNION {{[status |-> "idle", nodeProperties |-> p, level |-> v,
                  nodeValues |-> v, path |-> <<>>] :
                     v \in FixedCollectionValues(p)} :
                p \in FixedCollectionFields}

InitIssues ==
    /\ nodePropertiesArray = <<>>
    /\ parameterDependencies = <<>>
    /\ resolveState = IdleCall
    /\ displayCall = IdleCall
    /\ runExecutionData = NoRun
    /\ heap = <<>>
    /\ contextCall = <<>>
    /\ paramsCall = IdleCall
    /\ issuesCall \in IssueCalls
    /\ mergeCall = IdleCall
    /\ webhooksCall = IdleCall

\* getParameterIssues(nodeProperties, nodeValues, path)
GetParameterIssuesCall ==
    /\ issuesCall.status = "idle"
    /\ issuesCall' =
           [status |-> "done", nodeProperties |-> issuesCall.nodeProperties,
            level |-> issuesCall.level, nodeValues |-> issuesCall.nodeValues,
            path |-> issuesCall.path,
            result |-> getParameterIssues(issuesCall.nodeProperties,
                                          issuesCall.nodeValues,
                                          issuesCall.path)]
    /\ UNCHANGED <<nodePropertiesArray, parameterDependencies, resolveState,
                   displayCall, runExecutionData, heap, contextCall, paramsCall,
                   mergeCall, webhooksCall>>

NextIssues == GetParameterIssuesCall

SpecIssues == InitIssues /\ [][NextIssues]_vars

-----------------------------------------------------------------------------
(* Properties of getParameterIssues *)

\* C13: for a required string field without the multipleValues type option
\* that is visible at its path, getParameterIssues returns exactly the one
\* message 'Parameter "<displayName>" is required.' under parameters[name]
\* when the value at the path is '' or undefined, and no issue at all when
\* it is a non-empty string.
C13_RequiredStringFlagged ==
    LET p == issuesCall.nodeProperties
        value == Prop(issuesCall.level, p.name)
    IN  (/\ issuesCall.status = "done"
         /\ p.type = "string"
         /\ p.required
         /\ p.multipleValues = Undefined
         /\ displayParameter(issuesCall.level, p, issuesCall.nodeValues))
            => issuesCall.result =
                   IF value \in {Str(<<>>), Undefined}
                   THEN [NoIssues EXCEPT !.parameters =
                            IssueMap(<<[name |-> p.name,
                                        messages |->
                                            <<RequiredMessage(p.displayName)>>]>>)]
                   ELSE NoIssues

\* a required string shown by its sibling inside a list item has been
\* flagged for an empty value
C13_Witness ==
    /\ issuesCall.status = "done"
    /\ issuesCall.path = <<"g", ".", "o", "1", "[", "1", "]">>
    /\ issuesCall.nodeProperties.type = "string"
    /\ issuesCall.nodeProperties.required
    /\ issuesCall.nodeProperties.multipleValues = Undefined
    /\ issuesCall.nodeProperties.displayOptions # Undefined
    /\ Prop(issuesCall.level, <<"a">>) = Str(<<"1">>)
    /\ Prop(issuesCall.level, <<"s">>) = Str(<<>>)
    /\ issuesCall.result.parameters # Undefined

\* the number of messages an issue tree holds under parameters[name]
MessagesFor(issues, name) ==
    IF issues.parameters = Undefined THEN 0
    ELSE LET entries == issues.parameters.entries
             found == {i \in 1..Len(entries) : entries[i].name = name}
         IN  IF found = {} THEN 0
             ELSE Len(entries[CHOOSE i \in found : TRUE].messages)

\* the required findings for the fields called name that the user values
\* call for: the required strings without a value among the children of
\* the alternatives the user supplied, at every depth
RECURSIVE ExpectedInFields(_, _, _)
RECURSIVE ExpectedInItems(_, _, _)
RECURSIVE ExpectedInOptions(_, _, _, _)

ExpectedInOptions(field, options, container, name) ==
    IF options = <<>> THEN 0
    ELSE LET value == Prop(Prop(container, field.name), Head(options).name)
             here == IF value = Undefined THEN 0
                     ELSE IF field.multipleValues # Undefined
                     THEN IF value.t = "array"
                          THEN ExpectedInItems(Head(options).values, value.items,
                                               name)
                          ELSE 0
                     ELSE ExpectedInFields(Head(options).values, value, name)
         IN  here + ExpectedInOptions(field, Tail(options), container, name)

ExpectedInItems(fields, items, name) ==
    IF items = <<>> THEN 0
    ELSE ExpectedInFields(fields, Head(items), name)
         + ExpectedInItems(fields, Tail(items), name)

ExpectedInFields(fields, item, name) ==
    IF fields = <<>> THEN 0
    ELSE LET field == Head(fields)
             here == IF field.type = "fixedCollection"
                     THEN ExpectedInOptions(field, field.options.items, item, name)
                     ELSE IF /\ field.name = name
                             /\ field.type = "string"
                             /\ field.required
                             /\ Prop(item, name) \in {Str(<<>>), Undefined}
                     THEN 1
                     ELSE 0
         IN  here + ExpectedInFields(Tail(fields), item, name)

\* C14: for a fixedCollection field, at the top level and inside an
\* alternative of another fixedCollection, the required string children of
\* an alternative are checked exactly when the user values hold a value for
\* the alternative: each such child without a value gives one required
\* finding (one per list item with multipleValues), an alternative the user
\* did not supply gives none.
C14_SuppliedAlternativesChecked ==
    (issuesCall.status = "done"
        /\ issuesCall.nodeProperties.type = "fixedCollection")
        => \A name \in {<<"x">>, <<"w">>, <<"r">>} :
               MessagesFor(issuesCall.result, name)
                   = ExpectedInFields(<<issuesCall.nodeProperties>>,
                                      issuesCall.nodeValues, name)

-----------------------------------------------------------------------------
(* Specification SpecMerge: issue trees merged into an empty destination   *)
(* with mergeIssues, and the destination rendered by nodeIssuesToString    *)

MaxMerges == 3

MessageA == RequiredMessage(<<"A">>)
MessageB == RequiredMessage(<<"B">>)
MessageC == <<"Credentials not set.">>

\* the issue trees to merge: every combination of the two flags, of no, one
\* or two fields with parameter messages and of no or one field with a
\* credential message; a tree whose execution flag is false; null
IssueSources ==
    {[execution |-> execution, parameters |-> parameters,
      credentials |-> credentials, typeUnknown |-> typeUnknown] :
        execution \in {Undefined, Bool(TRUE)},
        parameters \in
            {Undefined,
             IssueMap(<<[name |-> <<"a">>, messages |-> <<MessageA>>]>>),
             IssueMap(<<[name |-> <<"b">>, messages |-> <<MessageB>>],
                        [name |-> <<"a">>, messages |-> <<MessageA, MessageA>>]>>)},
        credentials \in
            {Undefined,
             IssueMap(<<[name |-> <<"c">>, messages |-> <<MessageC>>]>>)},
        typeUnknown \in {Undefined, Bool(TRUE)}}
    \cup {[NoIssues EXCEPT !.execution = Bool(FALSE)], Null}

\* the node handed to nodeIssuesToString, if any
IssueNodes == {Undefined, [type |-> <<"t">>]}

InitMerge ==
    /\ nodePropertiesArray = <<>>
    /\ parameterDependencies = <<>>
    /\ resolveState = IdleCall
    /\ displayCall = IdleCall
    /\ runExecutionData = NoRun
    /\ heap = <<>>
    /\ contextCall = <<>>
    /\ paramsCall = IdleCall
    /\ issuesCall = IdleCall
    /\ mergeCall = [destination |-> NoIssues, sources |-> <<>>,
                    before |-> <<>>, rendered |-> NotCalled]
    /\ webhooksCall = IdleCall

MergeUnchanged ==
    UNCHANGED <<nodePropertiesArray, parameterDependencies, resolveState,
                displayCall, runExecutionData, heap, contextCall, paramsCall,
                issuesCall, webhooksCall>>

\* mergeIssues(destination, source)
MergeIssuesCall(source) ==
    /\ Len(mergeCall.sources) < MaxMerges
    /\ mergeCall' =
           [destination |-> mergeIssues(mergeCall.destination, source),
            sources |-> Append(mergeCall.sources, source),
            before |-> Append(mergeCall.before, mergeCall.destination),
            rendered |-> NotCalled]
    /\ MergeUnchanged

\* nodeIssuesToString(destination, node)
NodeIssuesToStringCall(node) ==
    /\ mergeCall.rendered = NotCalled
    /\ mergeCall' =
           [mergeCall EXCEPT !.rendered =
               [status |-> "done", node |-> node,
                lines |-> nodeIssuesToString(mergeCall.destination, node)]]
    /\ MergeUnchanged

NextMerge ==
    \/ \E source \in IssueSources : MergeIssuesCall(source)
    \/ \E node \in IssueNodes : NodeIssuesToStringCall(node)

SpecMerge == InitMerge /\ [][NextMerge]_vars

-----------------------------------------------------------------------------
(* Properties of mergeIssues and nodeIssuesToString *)

IssueProperties == {"parameters", "credentials"}

IssueNames == {<<"a">>, <<"b">>, <<"c">>}

\* the message list of a field in an issue tree, empty when there is none
MessageList(issues, propertyName, name) ==
    IF issues[propertyName] = Undefined THEN <<>>
    ELSE LET entries == issues[propertyName].entries
             found == {i \in 1..Len(entries) : entries[i].name = name}
         IN  IF found = {} THEN <<>>
             ELSE entries[CHOOSE i \in found : TRUE].messages

FlagSet(issues, flag) == issues[flag] = Bool(TRUE)

\* the destination after the k-th merge
DestinationAfter(k) ==
    IF k < Len(mergeCall.sources) THEN mergeCall.before[k + 1]
    ELSE mergeCall.destination

\* C15: mergeIssues sets each flag of the destination to the OR of the
\* destination's and the source's and makes each message list of the
\* destination its previous list followed by the source's list for the
\* field; so merging a source twice adds its message count per field twice,
\* and three sources merged into an empty destination give the same tree
\* for every grouping of the merges.
C15_MergeConcatenates ==
    LET n == Len(mergeCall.sources)
        source(k) == mergeCall.sources[k]
    IN  /\ \A k \in 1..n :
               IF source(k) = Null
               THEN DestinationAfter(k) = mergeCall.before[k]
               ELSE /\ \A flag \in {"execution", "typeUnknown"} :
                          FlagSet(DestinationAfter(k), flag)
                              <=> (FlagSet(mergeCall.before[k], flag)
                                     \/ FlagSet(source(k), flag))
                    /\ \A propertyName \in IssueProperties, name \in IssueNames :
                          MessageList(DestinationAfter(k), propertyName, name)
                              = MessageList(mergeCall.before[k], propertyName, name)
                                  \o MessageList(source(k), propertyName, name)
        /\ \A k \in 1..(n - 1) :
               (source(k) # Null /\ source(k) = source(k + 1))
                   => \A propertyName \in IssueProperties, name \in IssueNames :
                          Len(MessageList(DestinationAfter(k + 1), propertyName, name))
                              = Len(MessageList(mergeCall.before[k], propertyName, name))
                                  + 2 * Len(MessageList(source(k), propertyName, name))
        /\ (n = 3 /\ \A k \in 1..3 : source(k) # Null)
               => LET a == source(1)
                      b == source(2)
                      c == source(3)
                      ab == mergeIssues(mergeIssues(NoIssues, a), b)
                      bc == mergeIssues(mergeIssues(NoIssues, b), c)
                  IN  /\ mergeCall.destination = mergeIssues(ab, c)
                      /\ mergeCall.destination
                             = mergeIssues(mergeIssues(NoIssues, a), bc)
                      /\ mergeCall.destination
                             = mergeIssues(NoIssues, mergeIssues(ab, c))
                      /\ mergeCall.destination
                             = mergeIssues(NoIssues,
                                   mergeIssues(mergeIssues(NoIssues, a), bc))

\* a source with two messages for a field has been merged twice and a
\* different source with both flags after it
C15_Witness ==
    /\ Len(mergeCall.sources) = 3
    /\ mergeCall.sources[1] = mergeCall.sources[2]
    /\ mergeCall.sources[1] # Null
    /\ Len(MessageList(mergeCall.sources[1], "parameters", <<"a">>)) = 2
    /\ mergeCall.sources[3] # Null
    /\ FlagSet(mergeCall.sources[3], "execution")
    /\ FlagSet(mergeCall.sources[3], "typeUnknown")
    /\ ~FlagSet(mergeCall.sources[1], "execution")
    /\ Len(MessageList(mergeCall.destination, "parameters", <<"a">>)) >= 4

\* the messages of an issue tree: fields in the order they were recorded,
\* messages of a field in list order, parameters before credentials
CapturedMessages(issues) ==
    PropertyTexts(issues, "parameters") \o PropertyTexts(issues, "credentials")

\* C18: nodeIssuesToString returns the unknown-type sentence if that flag
\* is set, then the execution-error sentence if that flag is set, then one
\* line per message, fields in the order they were recorded and the
\* messages of a field in list order.
C18_LinesInOrder ==
    mergeCall.rendered # NotCalled =>
        mergeCall.rendered.lines =
            (IF mergeCall.destination.typeUnknown # Undefined
             THEN <<TypeUnknownSentence(mergeCall.rendered.node)>> ELSE <<>>)
            \o (IF mergeCall.destination.execution # Undefined
                THEN <<ExecutionSentence>> ELSE <<>>)
            \o CapturedMessages(mergeCall.destination)

-----------------------------------------------------------------------------
(* Specification SpecWebhooks: getNodeWebhooks and getNodeWebhooksBasic on *)
(* bounded lists of webhook descriptors                                    *)

MaxWebhooks == 2

HookPath == <<"/", "h", "o", "o", "k", "/">>
IdPath == <<":", "i", "d", "/">>
PostMethod == <<"P", "O", "S", "T">>

\* descriptors: the path is missing, '/hook/' or ':id/'; the method is
\* missing, 'POST' or an expression that resolves to undefined; isFullPath
\* and restartWebhook are missing or true
WebhookDescriptions ==
    [path : {Undefined, Str(HookPath), Str(IdPath)},
     httpMethod : {Undefined, Str(PostMethod), Expression(Undefined)},
     isFullPath : {Undefined, Bool(TRUE)},
     restartWebhook : {Undefined, Bool(TRUE)}]

MyNode ==
    [name |-> <<"M", "y", " ", "N", "o", "d", "e">>, webhookId |-> Undefined,
     disabled |-> FALSE]

\* the node without and with a webhookId, and disabled; the workflow saved
\* as 'wf1' and not saved
WebhookContexts ==
    {[workflow |-> [id |-> Str(<<"w", "f", "1">>)], node |-> node] :
        node \in {MyNode,
                  [MyNode EXCEPT !.webhookId = Str(<<"a", "b", "c">>)],
                  [MyNode EXCEPT !.disabled = TRUE]}}
    \cup {[workflow |-> [id |-> Undefined], node |-> MyNode]}

InitWebhooks ==
    /\ nodePropertiesArray = <<>>
    /\ parameterDependencies = <<>>
    /\ resolveState = IdleCall
    /\ displayCall = IdleCall
    /\ runExecutionData = NoRun
    /\ heap = <<>>
    /\ contextCall = <<>>
    /\ paramsCall = IdleCall
    /\ issuesCall = IdleCall
    /\ mergeCall = IdleCall
    /\ \E context \in WebhookContexts,
          webhooks \in {Undefined}
              \cup {Arr(l) : l \in UNION {[1..k -> WebhookDescriptions] :
                                            k \in 0..MaxWebhooks}} :
           webhooksCall = [status |-> "idle", workflow |-> context.workflow,
                           node |-> context.node, webhooks |-> webhooks]

WebhooksUnchanged ==
    UNCHANGED <<nodePropertiesArray, parameterDependencies, resolveState,
                displayCall, runExecutionData, heap, contextCall, paramsCall,
                issuesCall, mergeCall>>

\* getNodeWebhooks(workflow, node, additionalData, ignoreRestartWehbooks)
GetNodeWebhooksCall(ignoreRestartWehbooks) ==
    /\ webhooksCall.status = "idle"
    /\ webhooksCall' =
           [status |-> "done", function |-> "getNodeWebhooks",
            workflow |-> webhooksCall.workflow, node |-> webhooksCall.node,
            webhooks |-> webhooksCall.webhooks,
            ignoreRestartWehbooks |-> ignoreRestartWehbooks,
            returnData |-> getNodeWebhooks(webhooksCall.workflow,
                               webhooksCall.node, webhooksCall.webhooks,
                               ignoreRestartWehbooks)]
    /\ WebhooksUnchanged

\* getNodeWebhooksBasic(workflow, node)
GetNodeWebhooksBasicCall ==
    /\ webhooksCall.status = "idle"
    /\ webhooksCall' =
           [status |-> "done", function |-> "getNodeWebhooksBasic",
            workflow |-> webhooksCall.workflow, node |-> webhooksCall.node,
            webhooks |-> webhooksCall.webhooks,
            ignoreRestartWehbooks |-> FALSE,
            returnData |-> getNodeWebhooksBasic(webhooksCall.workflow,
                               webhooksCall.node, webhooksCall.webhooks)]
    /\ WebhooksUnchanged

NextWebhooks ==
    \/ \E ignoreRestartWehbooks \in BOOLEAN :
           GetNodeWebhooksCall(ignoreRestartWehbooks)
    \/ GetNodeWebhooksBasicCall

SpecWebhooks == InitWebhooks /\ [][NextWebhooks]_vars

-----------------------------------------------------------------------------
(* Properties of the webhook routes *)

\* a string without one leading and one trailing '/'
WithoutOuterSlashes(s) ==
    LET head == IF Len(s) > 0 /\ Head(s) = "/" THEN Tail(s) ELSE s
    IN  IF Len(head) > 0 /\ head[Len(head)] = "/"
        THEN SubSeq(head, 1, Len(head) - 1) ELSE head

\* what a descriptor value resolves to, with the default of the call
ResolvedValue(value, default) ==
    IF value = Undefined THEN default
    ELSE IF value.t = "expression" THEN value.value
    ELSE value

\* C16: the path of every route getNodeWebhooks returns is, with p the
\* resolved path of its descriptor without one leading and one trailing
\* '/': p when restartWebhook resolves to true; else, for a node with a
\* webhookId, p when isFullPath is true and '<webhookId>/p' when not; else
\* '<workflowId>/<encodeURIComponent(lowercased node name)>/p'.
C16_RoutePath ==
    (webhooksCall.status = "done" /\ webhooksCall.function = "getNodeWebhooks")
        => \A i \in 1..Len(webhooksCall.returnData) :
               LET route == webhooksCall.returnData[i]
                   description == route.webhookDescription
                   node == webhooksCall.node
                   p == WithoutOuterSlashes(
                            ResolvedValue(description.path, Undefined).s)
               IN  route.path =
                       IF ResolvedValue(description.restartWebhook, Bool(FALSE))
                              = Bool(TRUE)
                       THEN p
                       ELSE IF node.webhookId # Undefined
                       THEN IF ResolvedValue(description.isFullPath, Bool(FALSE))
                                   = Bool(TRUE)
                            THEN p
                            ELSE node.webhookId.s \o <<"/">> \o p
                       ELSE route.workflowId \o <<"/">>
                                \o EncodeURIComponent(ToLowerCase(node.name))
                                \o <<"/">> \o p

\* the examples: 'wf1/my%20node/hook' for 'My Node' without a webhookId,
\* or 'abc/hook' with the webhookId 'abc', next to the restart route 'hook'
C16_Witness ==
    /\ webhooksCall.status = "done"
    /\ webhooksCall.function = "getNodeWebhooks"
    /\ Len(webhooksCall.returnData) = 2
    /\ webhooksCall.returnData[1].path
           \in {<<"w", "f", "1", "/", "m", "y", "%", "2", "0", "n", "o", "d",
                  "e", "/", "h", "o", "o", "k">>,
                <<"a", "b", "c", "/", "h", "o", "o", "k">>}
    /\ webhooksCall.returnData[2].path = <<"h", "o", "o", "k">>
    /\ webhooksCall.returnData[2].webhookDescription.restartWebhook = Bool(TRUE)

\* the descriptors of the call that give a route: the path and the method
\* resolve and the restart filter does not apply
RouteDescriptions ==
    LET webhooks == webhooksCall.webhooks.items
        methodDefault == IF webhooksCall.function = "getNodeWebhooks"
                         THEN Str(<<"G", "E", "T">>) ELSE Undefined
    IN  SelectSeq(webhooks,
            LAMBDA d :
                /\ ResolvedValue(d.path, Undefined) # Undefined
                /\ ResolvedValue(d.httpMethod, methodDefault) # Undefined
                /\ ~(webhooksCall.ignoreRestartWehbooks
                        /\ d.restartWebhook = Bool(TRUE)))

\* C17: getNodeWebhooks and getNodeWebhooksBasic return without an error,
\* for an enabled node with webhook descriptors, exactly one route per
\* descriptor whose path and method both resolve and that the restart
\* filter does not drop, in declaration order; a descriptor whose path or
\* method resolves to undefined is skipped and the others still give their
\* routes.
C17_UnresolvedSkipped ==
    (/\ webhooksCall.status = "done"
     /\ ~webhooksCall.node.disabled
     /\ webhooksCall.webhooks # Undefined)
        => /\ Len(webhooksCall.returnData) = Len(RouteDescriptions)
           /\ \A i \in 1..Len(RouteDescriptions) :
                  webhooksCall.returnData[i].webhookDescription
                      = RouteDescriptions[i]

\* the first descriptor has no path, the second resolves and has given the
\* only route
C17_Witness ==
    /\ webhooksCall.status = "done"
    /\ webhooksCall.webhooks # Undefined
    /\ Len(webhooksCall.webhooks.items) = 2
    /\ webhooksCall.webhooks.items[1].path = Undefined
    /\ webhooksCall.webhooks.items[2].httpMethod # Expression(Undefined)
    /\ Len(webhooksCall.returnData) = 1
    /\ webhooksCall.returnData[1].webhookDescription
           = webhooksCall.webhooks.items[2]

====
